---------------------------- MODULE Spec2Model ----------------------------
(***************************************************************************)
(* Steam shortcuts codec and merge engine of the game launcher             *)
(* (src/steam/manager.go).                                                 *)
(*                                                                         *)
(* A Go string is a sequence of bytes (naturals 0..255); a uint32 is the   *)
(* pair <<hi, lo>> of its two 16-bit halves (value hi * 65536 + lo), so    *)
(* that every 32-bit value, bit 31 included, stays inside TLC's integers.  *)
(* A Go map is a function whose DOMAIN is the set of keys.  A (value, err) *)
(* result is a record with an err field; a reader is the pair of the       *)
(* buffer and the 1-based position of the next unread byte.                *)
(*                                                                         *)
(* Outside the model: Steam discovery on disk is an input of each call     *)
(* (found / not found); os.MkdirAll and os.WriteFile are taken to succeed; *)
(* runtime.GOOS is fixed by GOOS below.                                    *)
(***************************************************************************)
EXTENDS Integers, Sequences, FiniteSets, TLC

VARIABLES
    steam,   \* what Steam discovery finds on this machine
    file,    \* shortcuts.vdf on disk: whether it exists, and its bytes
    log,     \* the calls made so far, oldest first (history)
    input,   \* a function called on its own: its arguments (Idle in Spec)
    output   \* a function called on its own: what it returned, once done

vars == <<steam, file, log, input, output>>

----------------------------------------------------------------------------
(* Bytes, strings, uint32 *)

Byte == 0..255

\* The type, name and end bytes of the binary VDF dialect.
TypeDict == 0
TypeString == 1
TypeInt == 2
TypeEnd == 8

K_shortcuts == <<115, 104, 111, 114, 116, 99, 117, 116, 115>>  \* "shortcuts"
K_tags == <<116, 97, 103, 115>>  \* "tags"
K_appid == <<97, 112, 112, 105, 100>>  \* "appid"
K_AppID == <<65, 112, 112, 73, 68>>  \* "AppID"
K_appname == <<97, 112, 112, 110, 97, 109, 101>>  \* "appname"
K_AppName == <<65, 112, 112, 78, 97, 109, 101>>  \* "AppName"
K_exe == <<101, 120, 101>>  \* "exe"
K_Exe == <<69, 120, 101>>  \* "Exe"
K_StartDir == <<83, 116, 97, 114, 116, 68, 105, 114>>  \* "StartDir"
K_icon == <<105, 99, 111, 110>>  \* "icon"
K_Icon == <<73, 99, 111, 110>>  \* "Icon"
K_ShortcutPath == <<83, 104, 111, 114, 116, 99, 117, 116, 80, 97, 116, 104>>  \* "ShortcutPath"
K_LaunchOptions == <<76, 97, 117, 110, 99, 104, 79, 112, 116, 105, 111, 110, 115>>  \* "LaunchOptions"
K_IsHidden == <<73, 115, 72, 105, 100, 100, 101, 110>>  \* "IsHidden"
K_AllowDesktopConfig == <<65, 108, 108, 111, 119, 68, 101, 115, 107, 116, 111, 112, 67, 111, 110, 102, 105, 103>>  \* "AllowDesktopConfig"
K_AllowOverlay == <<65, 108, 108, 111, 119, 79, 118, 101, 114, 108, 97, 121>>  \* "AllowOverlay"
K_OpenVR == <<79, 112, 101, 110, 86, 82>>  \* "OpenVR"
K_Devkit == <<68, 101, 118, 107, 105, 116>>  \* "Devkit"
K_DevkitGameID == <<68, 101, 118, 107, 105, 116, 71, 97, 109, 101, 73, 68>>  \* "DevkitGameID"
K_DevkitOverrideAppID == <<68, 101, 118, 107, 105, 116, 79, 118, 101, 114, 114, 105, 100, 101, 65, 112, 112, 73, 68>>  \* "DevkitOverrideAppID"
K_LastPlayTime == <<76, 97, 115, 116, 80, 108, 97, 121, 84, 105, 109, 101>>  \* "LastPlayTime"
K_FlatpakAppID == <<70, 108, 97, 116, 112, 97, 107, 65, 112, 112, 73, 68>>  \* "FlatpakAppID"

EmptyMap == [k \in {} |-> <<>>]

\* m[k] = v on a Go map.
MapPut(m, k, v) == [x \in DOMAIN m \cup {k} |-> IF x = k THEN v ELSE m[x]]

Zero32 == <<0, 0>>
One32 == <<0, 1>>

\* binary.Write(buffer, binary.LittleEndian, v) of a uint32: low byte first.
PutUint32Bad(v) == <<v[1] \div 256, v[1] % 256, v[2] \div 256, v[2] % 256>>
PutUint32(v) == <<v[2] % 256, v[2] \div 256, v[1] % 256, v[1] \div 256>>

\* binary.Read(reader, binary.LittleEndian, &value) of the 4 bytes at pos.
Uint32At(data, pos) ==
    <<data[pos + 2] + 256 * data[pos + 3], data[pos] + 256 * data[pos + 1]>>

\* fmt.Sprintf("%d", i) for i >= 0: the decimal digits in ASCII.
RECURSIVE Itoa(_)
Itoa(i) == IF i < 10 THEN <<48 + i>> ELSE Itoa(i \div 10) \o <<48 + (i % 10)>>

----------------------------------------------------------------------------
(* Identity: normalizeName, crc32.ChecksumIEEE, generateAppID *)

\* unicode.IsSpace on the ASCII range: \t \n \v \f \r and space.
IsSpace(b) == b \in 9..13 \/ b = 32

RECURSIVE TrimLeft(_)
TrimLeft(s) == IF s # <<>> /\ IsSpace(Head(s)) THEN TrimLeft(Tail(s)) ELSE s

RECURSIVE TrimRight(_)
TrimRight(s) ==
    IF s # <<>> /\ IsSpace(s[Len(s)]) THEN TrimRight(SubSeq(s, 1, Len(s) - 1)) ELSE s

TrimSpace(s) == TrimRight(TrimLeft(s))

\* strings.ToLower on the ASCII range.
ToLower(s) == [i \in 1..Len(s) |-> IF s[i] \in 65..90 THEN s[i] + 32 ELSE s[i]]

normalizeName(name) == ToLower(TrimSpace(name))

\* a ^ b on n-bit values.
RECURSIVE XorN(_, _, _)
XorN(a, b, n) ==
    IF n = 0 THEN 0
    ELSE ((a + b) % 2) + 2 * XorN(a \div 2, b \div 2, n - 1)

Xor32(a, b) == <<XorN(a[1], b[1], 16), XorN(a[2], b[2], 16)>>

\* w >> 1 on a uint32.
Shr1(w) == <<w[1] \div 2, (w[2] \div 2) + 32768 * (w[1] % 2)>>

\* crc32.IEEE = 0xedb88320, the reversed polynomial.
IEEEPoly == <<60856, 33568>>
AllOnes == <<65535, 65535>>

\* One bit of the bit-at-a-time CRC-32: shift right, the polynomial xored in
\* when the bit shifted out is set.
crcBit(w) == IF w[2] % 2 = 1 THEN Xor32(Shr1(w), IEEEPoly) ELSE Shr1(w)

crcByte(w, b) ==
    crcBit(crcBit(crcBit(crcBit(crcBit(crcBit(crcBit(crcBit(Xor32(w, <<0, b>>)))))))))

\* The loop over the bytes: w is the running CRC, i the next byte's index.
RECURSIVE crcUpdate(_, _, _)
RECURSIVE crcNext(_, _, _)
crcUpdate(w, data, i) ==
    IF i > Len(data) THEN w ELSE crcNext(crcByte(w, data[i]), data, i + 1)

\* next is the CRC after byte i - 1 (a uint32, so the test holds).
crcNext(next, data, i) == IF next[1] >= 0 THEN crcUpdate(next, data, i) ELSE next

ChecksumIEEE(data) == Xor32(crcUpdate(AllOnes, data, 1), AllOnes)

\* The crc as it is, bit 31 left alone.
KeepBits(u) == u

\* crc | 0x80000000
SetHighBit(u) == IF u[1] < 32768 THEN <<u[1] + 32768, u[2]>> ELSE u

generateAppIDWithExe(appName, exe) ==
    SetHighBit(ChecksumIEEE(normalizeName(appName) \o exe \o <<0>>))
generateAppID(appName, exe) ==
    SetHighBit(ChecksumIEEE(normalizeName(appName) \o <<0>>))

----------------------------------------------------------------------------
(* The binary parser: parseShortcutsVDF and what it calls *)

Nil == "nil"                         \* a nil error
EOF == "EOF"                         \* io.EOF
UnexpectedEOF == "unexpected EOF"    \* io.ErrUnexpectedEOF
FormatErr == "format"                \* an error made with fmt.Errorf

\* The zero value SteamShortcut{} that parseShortcut starts from.
ZeroShortcut ==
    [AppID |-> Zero32, AppName |-> <<>>, Exe |-> <<>>, StartDir |-> <<>>,
     Icon |-> <<>>, ShortcutPath |-> <<>>, LaunchOptions |-> <<>>,
     IsHidden |-> FALSE, AllowDesktopConfig |-> FALSE, AllowOverlay |-> FALSE,
     OpenVR |-> FALSE, Devkit |-> FALSE, DevkitGameID |-> <<>>,
     DevkitOverrideAppID |-> Zero32, LastPlayTime |-> Zero32,
     FlatpakAppID |-> <<>>, Tags |-> <<>>,
     UnknownStrings |-> EmptyMap, UnknownInts |-> EmptyMap]

\* What a function returns with a non-nil error: the error and a nil value.
Fail(e) == [err |-> e, pos |-> 0, val |-> <<>>]
Ok(pos, val) == [err |-> Nil, pos |-> pos, val |-> val]

\* The index of the first 0x00 at or after i, or 0 when the buffer ends first.
RECURSIVE scanNul(_, _)
scanNul(data, i) ==
    IF i > Len(data) THEN 0
    ELSE IF data[i] = 0 THEN i ELSE scanNul(data, i + 1)

readNullTerminatedString(data, pos) ==
    LET z == scanNul(data, pos)
    IN  IF z = 0 THEN Fail(EOF) ELSE Ok(z + 1, SubSeq(data, pos, z - 1))

\* binary.Read of one byte.
readByte(data, pos) ==
    IF pos > Len(data) THEN Fail(EOF) ELSE Ok(pos + 1, data[pos])

\* binary.Read of a uint32: io.ReadFull of 4 bytes.
readUint32(data, pos) ==
    IF pos > Len(data) THEN Fail(EOF)
    ELSE IF pos + 3 > Len(data) THEN Fail(UnexpectedEOF)
    ELSE Ok(pos + 4, Uint32At(data, pos))

\* assignStringField as it was before the code kept unknown fields.
assignKnownStringField(shortcut, fieldName, value) ==
    CASE fieldName \in {K_appname, K_AppName} -> [shortcut EXCEPT !.AppName = value]
      [] fieldName \in {K_exe, K_Exe} -> [shortcut EXCEPT !.Exe = value]
      [] fieldName = K_StartDir -> [shortcut EXCEPT !.StartDir = value]
      [] fieldName \in {K_icon, K_Icon} -> [shortcut EXCEPT !.Icon = value]
      [] fieldName = K_ShortcutPath -> [shortcut EXCEPT !.ShortcutPath = value]
      [] fieldName = K_LaunchOptions -> [shortcut EXCEPT !.LaunchOptions = value]
      [] fieldName = K_DevkitGameID -> [shortcut EXCEPT !.DevkitGameID = value]
      [] fieldName = K_FlatpakAppID -> [shortcut EXCEPT !.FlatpakAppID = value]
      [] OTHER -> shortcut

assignStringField(shortcut, fieldName, value) ==
    CASE fieldName \in {K_appname, K_AppName} -> [shortcut EXCEPT !.AppName = value]
      [] fieldName \in {K_exe, K_Exe} -> [shortcut EXCEPT !.Exe = value]
      [] fieldName = K_StartDir -> [shortcut EXCEPT !.StartDir = value]
      [] fieldName \in {K_icon, K_Icon} -> [shortcut EXCEPT !.Icon = value]
      [] fieldName = K_ShortcutPath -> [shortcut EXCEPT !.ShortcutPath = value]
      [] fieldName = K_LaunchOptions -> [shortcut EXCEPT !.LaunchOptions = value]
      [] fieldName = K_DevkitGameID -> [shortcut EXCEPT !.DevkitGameID = value]
      [] fieldName = K_FlatpakAppID -> [shortcut EXCEPT !.FlatpakAppID = value]
      [] OTHER ->
            [shortcut EXCEPT !.UnknownStrings = MapPut(@, fieldName, value)]

\* An assignIntField that keeps an unknown field under its lowercased name.
assignIntFieldLowered(shortcut, fieldName, value) ==
    CASE fieldName \in {K_appid, K_AppID} -> [shortcut EXCEPT !.AppID = value]
      [] fieldName = K_IsHidden -> [shortcut EXCEPT !.IsHidden = (value # Zero32)]
      [] fieldName = K_AllowDesktopConfig ->
            [shortcut EXCEPT !.AllowDesktopConfig = (value # Zero32)]
      [] fieldName = K_AllowOverlay -> [shortcut EXCEPT !.AllowOverlay = (value # Zero32)]
      [] fieldName = K_OpenVR -> [shortcut EXCEPT !.OpenVR = (value # Zero32)]
      [] fieldName = K_Devkit -> [shortcut EXCEPT !.Devkit = (value # Zero32)]
      [] fieldName = K_DevkitOverrideAppID ->
            [shortcut EXCEPT !.DevkitOverrideAppID = value]
      [] fieldName = K_LastPlayTime -> [shortcut EXCEPT !.LastPlayTime = value]
      [] OTHER ->
            [shortcut EXCEPT !.UnknownInts = MapPut(@, ToLower(fieldName), value)]

assignIntField(shortcut, fieldName, value) ==
    CASE fieldName \in {K_appid, K_AppID} -> [shortcut EXCEPT !.AppID = value]
      [] fieldName = K_IsHidden -> [shortcut EXCEPT !.IsHidden = (value # Zero32)]
      [] fieldName = K_AllowDesktopConfig ->
            [shortcut EXCEPT !.AllowDesktopConfig = (value # Zero32)]
      [] fieldName = K_AllowOverlay -> [shortcut EXCEPT !.AllowOverlay = (value # Zero32)]
      [] fieldName = K_OpenVR -> [shortcut EXCEPT !.OpenVR = (value # Zero32)]
      [] fieldName = K_Devkit -> [shortcut EXCEPT !.Devkit = (value # Zero32)]
      [] fieldName = K_DevkitOverrideAppID ->
            [shortcut EXCEPT !.DevkitOverrideAppID = value]
      [] fieldName = K_LastPlayTime -> [shortcut EXCEPT !.LastPlayTime = value]
      [] OTHER ->
            [shortcut EXCEPT !.UnknownInts = MapPut(@, fieldName, value)]

\* "if err != nil { return nil, err }" after a read r, then the rest of the
\* function, Rest, on what was read.
Try(r, Rest(_)) == IF r.err # Nil THEN Fail(r.err) ELSE Rest(r)

\* What one pass of a reading loop returns when no read failed: the position
\* after what it read, the value built so far, and whether the loop goes on
\* (more) or has read the 0x08 that ends the dictionary.
More(pos, val) == [err |-> Nil, pos |-> pos, val |-> val, more |-> TRUE]
Last(pos, val) == [err |-> Nil, pos |-> pos, val |-> val, more |-> FALSE]

\* One pass of the loop of parseTags; tags is the slice built so far.
parseTag(data, pos, tags) ==
    Try(readByte(data, pos), LAMBDA fieldType :
        IF fieldType.val = TypeEnd THEN Last(fieldType.pos, tags)
        ELSE Try(readNullTerminatedString(data, fieldType.pos), LAMBDA index :
                 IF fieldType.val = TypeString
                 THEN Try(readNullTerminatedString(data, index.pos), LAMBDA tag :
                          More(tag.pos, Append(tags, tag.val)))
                 ELSE More(index.pos, tags)))

RECURSIVE parseTagsLoop(_, _, _)
RECURSIVE parseTagsNext(_, _)
parseTagsLoop(data, pos, tags) == parseTagsNext(data, parseTag(data, pos, tags))

parseTagsNext(data, pass) ==
    IF pass.err # Nil THEN Fail(pass.err)
    ELSE IF pass.more THEN parseTagsLoop(data, pass.pos, pass.val)
    ELSE Ok(pass.pos, pass.val)

parseTags(data, pos) == parseTagsLoop(data, pos, <<>>)

RECURSIVE skipDictionary(_, _)
RECURSIVE skipDictionaryNext(_, _)

\* One pass of the loop of skipDictionary.
skipField(data, pos) ==
    Try(readByte(data, pos), LAMBDA fieldType :
        IF fieldType.val = TypeEnd THEN Last(fieldType.pos, <<>>)
        ELSE Try(readNullTerminatedString(data, fieldType.pos), LAMBDA name :
                 CASE fieldType.val = TypeDict ->
                          Try(skipDictionary(data, name.pos), LAMBDA sub :
                              More(sub.pos, <<>>))
                   [] fieldType.val = TypeString ->
                          Try(readNullTerminatedString(data, name.pos), LAMBDA value :
                              More(value.pos, <<>>))
                   [] fieldType.val = TypeInt ->
                          Try(readUint32(data, name.pos), LAMBDA value :
                              More(value.pos, <<>>))
                   [] OTHER -> More(name.pos, <<>>)))

skipDictionary(data, pos) == skipDictionaryNext(data, skipField(data, pos))

skipDictionaryNext(data, pass) ==
    IF pass.err # Nil THEN Fail(pass.err)
    ELSE IF pass.more THEN skipDictionary(data, pass.pos)
    ELSE Ok(pass.pos, <<>>)

\* One pass of the loop of parseShortcut; shortcut is the record filled so far.
parseField(data, pos, shortcut) ==
    Try(readByte(data, pos), LAMBDA fieldType :
        IF fieldType.val = TypeEnd THEN Last(fieldType.pos, shortcut)
        ELSE Try(readNullTerminatedString(data, fieldType.pos), LAMBDA fieldName :
                 CASE fieldType.val = TypeDict ->
                          IF fieldName.val = K_tags
                          THEN Try(parseTags(data, fieldName.pos), LAMBDA tags :
                                   More(tags.pos, [shortcut EXCEPT !.Tags = tags.val]))
                          ELSE Try(skipDictionary(data, fieldName.pos), LAMBDA skip :
                                   More(skip.pos, shortcut))
                   [] fieldType.val = TypeString ->
                          Try(readNullTerminatedString(data, fieldName.pos), LAMBDA value :
                              More(value.pos,
                                   assignStringField(shortcut, fieldName.val, value.val)))
                   [] fieldType.val = TypeInt ->
                          Try(readUint32(data, fieldName.pos), LAMBDA value :
                              More(value.pos,
                                   assignIntField(shortcut, fieldName.val, value.val)))
                   [] OTHER -> Fail(FormatErr)))

RECURSIVE parseShortcutLoop(_, _, _)
RECURSIVE parseShortcutNext(_, _)
parseShortcutLoop(data, pos, shortcut) ==
    parseShortcutNext(data, parseField(data, pos, shortcut))

parseShortcutNext(data, pass) ==
    IF pass.err # Nil THEN Fail(pass.err)
    ELSE IF pass.more THEN parseShortcutLoop(data, pass.pos, pass.val)
    ELSE Ok(pass.pos, pass.val)

parseShortcut(data, pos) == parseShortcutLoop(data, pos, ZeroShortcut)

\* One pass of the "Read shortcuts" loop of parseShortcutsVDF; shortcuts is the
\* slice built so far.  An io.EOF where an entry would start ends the loop.
parseEntry(data, pos, shortcuts) ==
    LET entryType == readByte(data, pos)
    IN  IF entryType.err # Nil
        THEN (IF entryType.err = EOF THEN Last(pos, shortcuts) ELSE Fail(entryType.err))
        ELSE IF entryType.val = TypeEnd THEN Last(entryType.pos, shortcuts)
        ELSE IF entryType.val # TypeDict THEN Fail(FormatErr)
        ELSE Try(readNullTerminatedString(data, entryType.pos), LAMBDA index :
                 Try(parseShortcut(data, index.pos), LAMBDA shortcut :
                     More(shortcut.pos, Append(shortcuts, shortcut.val))))

RECURSIVE parseEntries(_, _, _)
RECURSIVE parseEntriesNext(_, _)

\* The loop, returning the shortcuts read so far along with an error.
parseEntriesPartial(data, pos, shortcuts) ==
    [parseEntriesNext(data, parseEntry(data, pos, shortcuts)) EXCEPT
        !.val = IF @ = <<>> THEN shortcuts ELSE @]

parseEntries(data, pos, shortcuts) ==
    parseEntriesNext(data, parseEntry(data, pos, shortcuts))

parseEntriesNext(data, pass) ==
    IF pass.err # Nil THEN Fail(pass.err)
    ELSE IF pass.more THEN parseEntries(data, pass.pos, pass.val)
    ELSE Ok(pass.pos, pass.val)

\* What a function returns to its caller: the error and the value.
Returned(r) == [err |-> r.err, val |-> r.val]

\* parseShortcutsVDF(data): [err, val], val the shortcuts (nil on an error).
parseShortcutsVDF(data) ==
    Returned(
        Try(readByte(data, 1), LAMBDA rootType :
            Try(readNullTerminatedString(data, rootType.pos), LAMBDA rootKey :
                IF rootType.val # TypeDict \/ rootKey.val # K_shortcuts
                THEN Fail(FormatErr)
                ELSE parseEntries(data, rootKey.pos, <<>>))))

----------------------------------------------------------------------------
(* The binary writer: buildShortcutsVDF and what it calls *)

\* A writer that leaves out a string field whose value is empty.
writeNonEmptyStringField(name, value) ==
    IF value = <<>> THEN <<>> ELSE <<TypeString>> \o name \o <<0>> \o value \o <<0>>

writeStringField(name, value) == <<TypeString>> \o name \o <<0>> \o value \o <<0>>

writeIntField(name, value) == <<TypeInt>> \o name \o <<0>> \o PutUint32(value)

writeBoolField(name, value) == writeIntField(name, IF value THEN One32 ELSE Zero32)

RECURSIVE writeTagsLoop(_, _)
writeTagsLoop(tags, n) ==
    IF n = 0 THEN <<>>
    ELSE writeTagsLoop(tags, n - 1)
         \o <<TypeString>> \o Itoa(n - 1) \o <<0>> \o tags[n] \o <<0>>

writeTags(tags) ==
    <<TypeDict>> \o K_tags \o <<0>> \o writeTagsLoop(tags, Len(tags)) \o <<TypeEnd>>

\* "for fieldName, value := range m": Go ranges over a map in an order it does
\* not specify; keys is the order of one run, a permutation of the map's keys.
RECURSIVE writeStringFields(_, _)
writeStringFields(m, keys) ==
    IF keys = <<>> THEN <<>>
    ELSE writeStringField(Head(keys), m[Head(keys)]) \o writeStringFields(m, Tail(keys))

RECURSIVE writeIntFields(_, _)
writeIntFields(m, keys) ==
    IF keys = <<>> THEN <<>>
    ELSE writeIntField(Head(keys), m[Head(keys)]) \o writeIntFields(m, Tail(keys))

\* order = [s |-> order of UnknownStrings, i |-> order of UnknownInts].
writeShortcutData(shortcut, order) ==
    writeIntField(K_appid, shortcut.AppID)
    \o writeStringField(K_AppName, shortcut.AppName)
    \o writeStringField(K_Exe, shortcut.Exe)
    \o writeStringField(K_StartDir, shortcut.StartDir)
    \o writeStringField(K_icon, shortcut.Icon)
    \o writeStringField(K_ShortcutPath, shortcut.ShortcutPath)
    \o writeStringField(K_LaunchOptions, shortcut.LaunchOptions)
    \o writeBoolField(K_IsHidden, shortcut.IsHidden)
    \o writeBoolField(K_AllowDesktopConfig, shortcut.AllowDesktopConfig)
    \o writeBoolField(K_AllowOverlay, shortcut.AllowOverlay)
    \o writeBoolField(K_OpenVR, shortcut.OpenVR)
    \o writeBoolField(K_Devkit, shortcut.Devkit)
    \o writeStringField(K_DevkitGameID, shortcut.DevkitGameID)
    \o writeIntField(K_DevkitOverrideAppID, shortcut.DevkitOverrideAppID)
    \o writeIntField(K_LastPlayTime, shortcut.LastPlayTime)
    \o writeStringField(K_FlatpakAppID, shortcut.FlatpakAppID)
    \o writeStringFields(shortcut.UnknownStrings, order.s)
    \o writeIntFields(shortcut.UnknownInts, order.i)
    \o writeTags(shortcut.Tags)

RECURSIVE writeShortcuts(_, _, _)
writeShortcuts(shortcuts, orders, n) ==
    IF n = 0 THEN <<>>
    ELSE writeShortcuts(shortcuts, orders, n - 1)
         \o <<TypeDict>> \o Itoa(n - 1) \o <<0>>
         \o writeShortcutData(shortcuts[n], orders[n])
         \o <<TypeEnd>>

\* buildShortcutsVDF(shortcuts) in a run whose map ranges go in orders[i] for
\* record i.
buildShortcutsVDF(shortcuts, orders) ==
    <<TypeDict>> \o K_shortcuts \o <<0>>
    \o writeShortcuts(shortcuts, orders, Len(shortcuts))
    \o <<TypeEnd, TypeEnd>>

\* The orders a run may take: per record, one permutation of each map's keys.
Perms(S) == {p \in [1..Cardinality(S) -> S] : \A i, j \in DOMAIN p : i # j => p[i] # p[j]}

OrdersOf(shortcut) ==
    [s : Perms(DOMAIN shortcut.UnknownStrings), i : Perms(DOMAIN shortcut.UnknownInts)]

RangeOrders(shortcuts) ==
    {o \in [DOMAIN shortcuts -> UNION {OrdersOf(shortcuts[k]) : k \in DOMAIN shortcuts}] :
        \A k \in DOMAIN shortcuts : o[k] \in OrdersOf(shortcuts[k])}

----------------------------------------------------------------------------
(* Building a candidate from a game: createShortcutFromGame *)

GOOS == "linux"     \* runtime.GOOS of the build that runs

Slash == <<47>>     \* "/"
Dot == <<46>>       \* "."
DotDot == <<46, 46>>
Quote == <<34>>     \* the double quote

\* The path elements between the slashes of p, empty ones included.
RECURSIVE splitPath(_, _, _)
splitPath(p, i, cur) ==
    IF i > Len(p) THEN <<cur>>
    ELSE IF p[i] = 47 THEN <<cur>> \o splitPath(p, i + 1, <<>>)
    ELSE splitPath(p, i + 1, Append(cur, p[i]))

\* The element loop of filepath.Clean: out holds the elements kept so far.
RECURSIVE cleanLoop(_, _, _, _)
cleanLoop(elems, i, out, rooted) ==
    IF i > Len(elems) THEN out
    ELSE LET e == elems[i]
         IN  CASE e = <<>> \/ e = Dot -> cleanLoop(elems, i + 1, out, rooted)
               [] e = DotDot ->
                    IF out # <<>> /\ out[Len(out)] # DotDot
                    THEN cleanLoop(elems, i + 1, SubSeq(out, 1, Len(out) - 1), rooted)
                    ELSE IF rooted THEN cleanLoop(elems, i + 1, out, rooted)
                    ELSE cleanLoop(elems, i + 1, Append(out, e), rooted)
               [] OTHER -> cleanLoop(elems, i + 1, Append(out, e), rooted)

RECURSIVE joinPath(_)
joinPath(elems) ==
    IF elems = <<>> THEN <<>>
    ELSE IF Len(elems) = 1 THEN elems[1]
    ELSE elems[1] \o Slash \o joinPath(Tail(elems))

\* filepath.Clean on a Unix path.
Clean(path) ==
    IF path = <<>> THEN Dot
    ELSE LET rooted == path[1] = 47
             out == cleanLoop(splitPath(path, 1, <<>>), 1, <<>>, rooted)
         IN  IF rooted THEN Slash \o joinPath(out)
             ELSE IF out = <<>> THEN Dot ELSE joinPath(out)

\* The index of the last "/" of path, 0 when it has none.
RECURSIVE lastSlash(_, _)
lastSlash(path, i) ==
    IF i = 0 THEN 0 ELSE IF path[i] = 47 THEN i ELSE lastSlash(path, i - 1)

\* filepath.Dir on a Unix path (no volume name).
Dir(path) == Clean(SubSeq(path, 1, lastSlash(path, Len(path))))

\* The bytes of specialChars: space ( ) [ ] { } & | ; < > ? * ' ` " \
specialChars == {32, 40, 41, 91, 93, 123, 125, 38, 124, 59, 60, 62, 63, 42, 39, 96, 34, 92}

needsQuoting(path) == \E i \in DOMAIN path : path[i] \in specialChars

HasSuffixSlash(s) == s # <<>> /\ s[Len(s)] = 47

\* formatPathsForPlatform as it returns on Windows.
formatPathsUnchanged(exe, startDir) == <<exe, startDir>>

\* formatPathsForPlatform(exe, startDir): the pair <<exe, startDir>>.
formatPathsForPlatform(exe, startDir) ==
    IF GOOS # "windows"
    THEN <<IF (\E i \in DOMAIN exe : exe[i] = 32) \/ needsQuoting(exe)
           THEN Quote \o exe \o Quote ELSE exe,
           IF ~HasSuffixSlash(startDir) THEN startDir \o Slash ELSE startDir>>
    ELSE <<exe, startDir>>

\* A models.Game, as far as the Steam manager reads it.
Game(name, executable, iconPath, imagePath) ==
    [Name |-> name, Executable |-> executable, IconPath |-> iconPath,
     ImagePath |-> imagePath]

\* A candidate whose AppID is computed from the name and the executable.
createShortcutWithExeID(game) ==
    LET paths == formatPathsForPlatform(game.Executable, Dir(game.Executable))
        icon == IF game.IconPath = <<>> /\ game.ImagePath # <<>>
                THEN game.ImagePath ELSE game.IconPath
    IN  [AppID |-> generateAppIDWithExe(game.Name, game.Executable),
         AppName |-> game.Name, Exe |-> paths[1],
         StartDir |-> paths[2], Icon |-> icon, ShortcutPath |-> <<>>,
         LaunchOptions |-> <<>>, IsHidden |-> FALSE, AllowDesktopConfig |-> TRUE,
         AllowOverlay |-> TRUE, OpenVR |-> FALSE, Devkit |-> FALSE,
         DevkitGameID |-> <<>>, DevkitOverrideAppID |-> Zero32,
         LastPlayTime |-> Zero32, FlatpakAppID |-> <<>>, Tags |-> <<>>,
         UnknownStrings |-> EmptyMap, UnknownInts |-> EmptyMap]

createShortcutFromGame(game) ==
    LET appID == generateAppID(game.Name, game.Executable)
        paths == formatPathsForPlatform(game.Executable, Dir(game.Executable))
        icon == IF game.IconPath = <<>> /\ game.ImagePath # <<>>
                THEN game.ImagePath ELSE game.IconPath
    IN  [AppID |-> appID, AppName |-> game.Name, Exe |-> paths[1],
         StartDir |-> paths[2], Icon |-> icon, ShortcutPath |-> <<>>,
         LaunchOptions |-> <<>>, IsHidden |-> FALSE, AllowDesktopConfig |-> TRUE,
         AllowOverlay |-> TRUE, OpenVR |-> FALSE, Devkit |-> FALSE,
         DevkitGameID |-> <<>>, DevkitOverrideAppID |-> Zero32,
         LastPlayTime |-> Zero32, FlatpakAppID |-> <<>>, Tags |-> <<>>,
         UnknownStrings |-> EmptyMap, UnknownInts |-> EmptyMap]

----------------------------------------------------------------------------
(* The merge of addShortcutToFile (one candidate) *)

\* The scan for an existing shortcut, from index i on: the index found, or 0
\* for Go's -1 (indices are 1-based here).
RECURSIVE findExisting(_, _, _)
RECURSIVE findByAppID(_, _, _)
RECURSIVE findByName(_, _, _)

findByAppID(shortcuts, shortcut, i) ==
    IF i > Len(shortcuts) THEN 0
    ELSE IF shortcuts[i].AppID = shortcut.AppID THEN i
    ELSE findByAppID(shortcuts, shortcut, i + 1)

findByName(shortcuts, shortcut, i) ==
    IF i > Len(shortcuts) THEN 0
    ELSE IF normalizeName(shortcuts[i].AppName) = normalizeName(shortcut.AppName) THEN i
    ELSE findByName(shortcuts, shortcut, i + 1)

\* A scan that takes a record with the candidate's executable for a match too.
RECURSIVE findExistingByExe(_, _, _)
findExistingByExe(shortcuts, shortcut, i) ==
    IF i > Len(shortcuts) THEN 0
    ELSE IF shortcuts[i].AppID = shortcut.AppID THEN i
    ELSE IF normalizeName(shortcuts[i].AppName) = normalizeName(shortcut.AppName) THEN i
    ELSE IF shortcuts[i].Exe = shortcut.Exe THEN i
    ELSE findExistingByExe(shortcuts, shortcut, i + 1)

\* A scan that looks at the AppID alone and never at the name.
findExistingByAppID(shortcuts, shortcut, i) == findByAppID(shortcuts, shortcut, i)

\* A scan in two passes: the whole store by AppID, and by name only after.
findExistingAppIDFirst(shortcuts, shortcut, i) ==
    IF findByAppID(shortcuts, shortcut, i) >= 1
    THEN findByAppID(shortcuts, shortcut, i)
    ELSE findByName(shortcuts, shortcut, i)

findExisting(shortcuts, shortcut, i) ==
    IF i > Len(shortcuts) THEN 0
    ELSE IF shortcuts[i].AppID = shortcut.AppID THEN i
    ELSE IF normalizeName(shortcuts[i].AppName) = normalizeName(shortcut.AppName) THEN i
    ELSE findExisting(shortcuts, shortcut, i + 1)

\* An update that leaves the existing shortcut its AppID.
updatedKeepingAppID(existingShortcut, shortcut) ==
    [existingShortcut EXCEPT
        !.AppName = shortcut.AppName, !.Exe = shortcut.Exe,
        !.StartDir = shortcut.StartDir, !.Icon = shortcut.Icon]

\* An update that puts the new shortcut in the place of the existing one.
replacedShortcut(existingShortcut, shortcut) == shortcut

\* updatedShortcut := &SteamShortcut{...} of addShortcutToFile.
updatedShortcut(existingShortcut, shortcut) ==
    [AppID |-> shortcut.AppID, AppName |-> shortcut.AppName, Exe |-> shortcut.Exe,
     StartDir |-> shortcut.StartDir, Icon |-> shortcut.Icon,
     ShortcutPath |-> existingShortcut.ShortcutPath,
     LaunchOptions |-> existingShortcut.LaunchOptions,
     IsHidden |-> existingShortcut.IsHidden,
     AllowDesktopConfig |-> existingShortcut.AllowDesktopConfig,
     AllowOverlay |-> existingShortcut.AllowOverlay,
     OpenVR |-> existingShortcut.OpenVR,
     Devkit |-> existingShortcut.Devkit,
     DevkitGameID |-> existingShortcut.DevkitGameID,
     DevkitOverrideAppID |-> existingShortcut.DevkitOverrideAppID,
     LastPlayTime |-> existingShortcut.LastPlayTime,
     FlatpakAppID |-> existingShortcut.FlatpakAppID,
     Tags |-> existingShortcut.Tags,
     UnknownStrings |-> existingShortcut.UnknownStrings,
     UnknownInts |-> existingShortcut.UnknownInts]

\* A merge that never looks for an existing shortcut.
appendShortcut(shortcuts, shortcut) == Append(shortcuts, shortcut)

\* A merge whose scan does not stop at the first match: every existing
\* shortcut with the AppID or the name is updated.
mergeEveryMatch(shortcuts, shortcut) ==
    IF findExisting(shortcuts, shortcut, 1) >= 1
    THEN [i \in DOMAIN shortcuts |->
             IF findExisting(<<shortcuts[i]>>, shortcut, 1) >= 1
             THEN updatedShortcut(shortcuts[i], shortcut)
             ELSE shortcuts[i]]
    ELSE Append(shortcuts, shortcut)

\* A merge that puts a new shortcut in front of the existing ones.
mergeShortcutAtFront(shortcuts, shortcut) ==
    IF findExisting(shortcuts, shortcut, 1) >= 1
    THEN [shortcuts EXCEPT
             ![findExisting(shortcuts, shortcut, 1)] =
                 updatedShortcut(shortcuts[findExisting(shortcuts, shortcut, 1)], shortcut)]
    ELSE <<shortcut>> \o shortcuts

\* The shortcuts addShortcutToFile writes back, given those it read.
mergeShortcut(shortcuts, shortcut) ==
    LET existingIndex == findExisting(shortcuts, shortcut, 1)
    IN  IF existingIndex >= 1
        THEN [shortcuts EXCEPT
                 ![existingIndex] = updatedShortcut(shortcuts[existingIndex], shortcut)]
        ELSE Append(shortcuts, shortcut)

----------------------------------------------------------------------------
(* The merge loop of AddAllGamesToSteam (a batch of games) *)

RECURSIVE batchFindExisting(_, _, _)

\* The scan of the batch loop, looking at the AppID alone.
batchFindExistingByAppID(existingShortcuts, shortcut, i) ==
    findByAppID(existingShortcuts, shortcut, i)

batchFindExisting(existingShortcuts, shortcut, i) ==
    IF i > Len(existingShortcuts) THEN 0
    ELSE IF existingShortcuts[i].AppID = shortcut.AppID THEN i
    ELSE IF normalizeName(existingShortcuts[i].AppName) = normalizeName(shortcut.AppName)
    THEN i
    ELSE batchFindExisting(existingShortcuts, shortcut, i + 1)

\* updatedShortcut := &SteamShortcut{...} of AddAllGamesToSteam.
batchUpdatedShortcut(existingShortcut, shortcut) ==
    [AppID |-> shortcut.AppID, AppName |-> shortcut.AppName, Exe |-> shortcut.Exe,
     StartDir |-> shortcut.StartDir, Icon |-> shortcut.Icon,
     ShortcutPath |-> existingShortcut.ShortcutPath,
     LaunchOptions |-> existingShortcut.LaunchOptions,
     IsHidden |-> existingShortcut.IsHidden,
     AllowDesktopConfig |-> existingShortcut.AllowDesktopConfig,
     AllowOverlay |-> existingShortcut.AllowOverlay,
     OpenVR |-> existingShortcut.OpenVR,
     Devkit |-> existingShortcut.Devkit,
     DevkitGameID |-> existingShortcut.DevkitGameID,
     DevkitOverrideAppID |-> existingShortcut.DevkitOverrideAppID,
     LastPlayTime |-> existingShortcut.LastPlayTime,
     FlatpakAppID |-> existingShortcut.FlatpakAppID,
     Tags |-> existingShortcut.Tags,
     UnknownStrings |-> existingShortcut.UnknownStrings,
     UnknownInts |-> existingShortcut.UnknownInts]

\* An iteration that takes the existing shortcut out of the slice and appends
\* the updated one.
batchMergeMovingToEnd(existingShortcuts, shortcut) ==
    IF batchFindExisting(existingShortcuts, shortcut, 1) >= 1
    THEN Append(SubSeq(existingShortcuts, 1,
                       batchFindExisting(existingShortcuts, shortcut, 1) - 1)
                \o SubSeq(existingShortcuts,
                          batchFindExisting(existingShortcuts, shortcut, 1) + 1,
                          Len(existingShortcuts)),
                batchUpdatedShortcut(
                    existingShortcuts[batchFindExisting(existingShortcuts, shortcut, 1)],
                    shortcut))
    ELSE Append(existingShortcuts, shortcut)

\* One iteration of "for _, game := range games".
batchMergeShortcut(existingShortcuts, shortcut) ==
    LET existingIndex == batchFindExisting(existingShortcuts, shortcut, 1)
    IN  IF existingIndex >= 1
        THEN [existingShortcuts EXCEPT
                 ![existingIndex] =
                     batchUpdatedShortcut(existingShortcuts[existingIndex], shortcut)]
        ELSE Append(existingShortcuts, shortcut)

batchMergeGame(existingShortcuts, game) ==
    batchMergeShortcut(existingShortcuts, createShortcutFromGame(game))

\* existingShortcuts after each iteration: the stores after 0, 1, ... games.
RECURSIVE batchTrace(_, _, _)
batchTrace(existingShortcuts, games, k) ==
    IF k > Len(games) THEN <<existingShortcuts>>
    ELSE <<existingShortcuts>>
         \o batchTrace(batchMergeGame(existingShortcuts, games[k]), games, k + 1)

\* existingShortcuts when the loop ends.
Final(trace) == trace[Len(trace)]
batchMerge(existingShortcuts, games) == Final(batchTrace(existingShortcuts, games, 1))

----------------------------------------------------------------------------
(* The file: ReadShortcutsFile, WriteShortcutsFile *)

\* shortcuts.vdf on disk: whether it exists, and its bytes.
NoFile == [exists |-> FALSE, data |-> <<>>]
File(data) == [exists |-> TRUE, data |-> data]
NotExist == "not exist"      \* the error of os.Open on a missing file

ReadShortcutsFile(f) ==
    IF ~f.exists THEN [err |-> NotExist, val |-> <<>>] ELSE parseShortcutsVDF(f.data)

\* The shortcuts a call goes on with after reading: "if err != nil" replaces
\* them by an empty list.
orEmpty(read) == IF read.err # Nil THEN <<>> ELSE read.val
readOrEmpty(f) == orEmpty(ReadShortcutsFile(f))

\* A scan that compares the AppID alone.
existsByAppID(read, appID, normalizedName) ==
    /\ read.err = Nil
    /\ \E i \in DOMAIN read.val : read.val[i].AppID = appID

\* The scan of checkGameExistsInSteam over what was read.
existsIn(read, appID, normalizedName) ==
    /\ read.err = Nil
    /\ \E i \in DOMAIN read.val :
           \/ read.val[i].AppID = appID
           \/ normalizeName(read.val[i].AppName) = normalizedName

checkGameExistsInSteam(f, game) ==
    existsIn(ReadShortcutsFile(f), generateAppID(game.Name, game.Executable),
             normalizeName(game.Name))

\* WriteShortcutsFile(shortcutsPath, shortcuts): the file becomes what
\* buildShortcutsVDF returns in this run.
WriteShortcutsFile(shortcuts) ==
    \E orders \in RangeOrders(shortcuts) :
        file' = File(buildShortcutsVDF(shortcuts, orders))

----------------------------------------------------------------------------
(* Bounds of the model *)

MaxCalls == 2        \* calls of AddGameToSteam / AddAllGamesToSteam in a run
MaxBatch == 2        \* games in one AddAllGamesToSteam call
MaxStore == 2        \* records of a store handed to a merge
MaxRoundTrip == 2    \* records of a store handed to the writer
MaxWireFields == 2   \* fields of a record in a generated input buffer
MaxWireRecs == 2     \* records of a generated input buffer that is truncated

\* All sequences over S of length 0..n.
SeqsUpTo(S, n) == UNION {[1..k -> S] : k \in 0..n}

----------------------------------------------------------------------------
(* Input buffers, written field by field as they lie on disk *)

\* A field on the wire: type byte t, name n, and the payload: in v the string
\* of a 0x01 field or the four bytes of a 0x02 field, in sub the fields of a
\* 0x00 field.
WStr(n, v) == [t |-> TypeString, n |-> n, v |-> v, sub |-> <<>>]
WInt(n, v) == [t |-> TypeInt, n |-> n, v |-> v, sub |-> <<>>]
WDict(n, sub) == [t |-> TypeDict, n |-> n, v |-> <<>>, sub |-> sub]
WRaw(t, n, v) == [t |-> t, n |-> n, v |-> v, sub |-> <<>>]

RECURSIVE wireFields(_)
wireField(f) ==
    <<f.t>> \o f.n \o <<0>>
    \o (CASE f.t = TypeString -> f.v \o <<0>>
          [] f.t = TypeDict -> wireFields(f.sub) \o <<TypeEnd>>
          [] OTHER -> f.v)

wireFields(fs) == IF fs = <<>> THEN <<>> ELSE wireField(Head(fs)) \o wireFields(Tail(fs))

\* Record k (0-based key) of the "shortcuts" dictionary.
wireRecord(k, fields) ==
    <<TypeDict>> \o Itoa(k) \o <<0>> \o wireFields(fields) \o <<TypeEnd>>

RECURSIVE wireRecords(_, _)
wireRecords(records, n) ==
    IF n = 0 THEN <<>>
    ELSE wireRecords(records, n - 1) \o wireRecord(n - 1, records[n])

wireHeader(rootType, rootKey) == <<rootType>> \o rootKey \o <<0>>

wireFile(rootType, rootKey, records) ==
    wireHeader(rootType, rootKey) \o wireRecords(records, Len(records))
    \o <<TypeEnd, TypeEnd>>

Prefix(data, n) == SubSeq(data, 1, n)

----------------------------------------------------------------------------
(* The games of the library and the files found on disk *)

NameA == <<65>>                          \* "A"
NameSpA == <<32, 97>>                    \* " a": "A" after normalizeName
NameB == <<66>>                          \* "B"
Exe1 == <<47, 103, 47, 120>>             \* "/g/x"
Exe2 == <<47, 103, 32, 121, 47, 120>>    \* "/g y/x"
Image == <<105, 46, 112, 110, 103>>      \* "i.png"

Games ==
    {Game(NameA, Exe1, <<>>, <<>>), Game(NameA, Exe2, <<>>, Image),
     Game(NameSpA, Exe1, <<>>, <<>>), Game(NameB, Exe1, <<>>, <<>>)}

\* The games of the library when AddAllGamesToSteam is called on it.
LibraryGames == {Game(NameA, Exe2, <<>>, Image), Game(NameB, Exe1, <<>>, <<>>)}

LegacyID == <<1, 2>>                     \* an appid not made by generateAppID
RPG == <<82, 80, 71>>                    \* "RPG"
FieldX == <<88>>                         \* "X", a field name the code does not know
FieldY == <<89>>                         \* "Y"
FieldZ == <<90>>                         \* "Z"

\* A record as Steam wrote it for a shortcut "A" the user made by hand.
SteamRecord ==
    <<WInt(K_appid, PutUint32(LegacyID)), WStr(K_AppName, NameA),
      WStr(K_Exe, <<47, 111>>), WStr(K_StartDir, <<47>>), WStr(K_icon, <<>>),
      WStr(K_LaunchOptions, <<45, 102>>), WInt(K_LastPlayTime, <<104, 16, 0, 0>>),
      WStr(FieldX, <<118>>), WDict(K_tags, <<WStr(<<48>>, RPG)>>)>>

EmptyStoreFile == wireFile(TypeDict, K_shortcuts, <<>>)
SteamFile == wireFile(TypeDict, K_shortcuts, <<SteamRecord>>)
BadRootFile == wireFile(TypeDict, <<83>> \o Tail(K_shortcuts), <<SteamRecord>>)
BadTypeFile ==
    wireFile(TypeDict, K_shortcuts, <<SteamRecord, <<WRaw(3, FieldX, <<1, 0, 0, 0>>)>> >>)
TruncatedFile == Prefix(SteamFile, Len(SteamFile) - 20)

InitFiles ==
    {NoFile, File(EmptyStoreFile), File(SteamFile), File(BadRootFile),
     File(BadTypeFile), File(TruncatedFile)}

----------------------------------------------------------------------------
(* The program: calls of AddGameToSteam and AddAllGamesToSteam, one at a time *)

Found == "found"                 \* Steam and a user's config directory exist
NoSteam == "no steam"            \* findSteamPath fails
NoUserData == "no userdata"      \* findUserDataPath fails
NoGames == "no games to add"

\* input and output belong to the single function calls further down; the program
\* leaves them idle.
Idle == [kind |-> "idle"]
Pending == [done |-> FALSE]

Init ==
    /\ steam \in {Found, NoSteam, NoUserData}
    /\ file \in InitFiles
    /\ log = <<>>
    /\ input = Idle
    /\ output = Pending

Call(op, games, err, isUpdate) ==
    [op |-> op, games |-> games, pre |-> file, err |-> err, isUpdate |-> isUpdate]

\* An addShortcutToFile that gives up when there is no file to read.
addShortcutToExistingFile(shortcut) ==
    IF file.exists
    THEN WriteShortcutsFile(mergeShortcut(readOrEmpty(file), shortcut))
    ELSE UNCHANGED file

\* addShortcutToFile(shortcutsPath, shortcut): read, merge, write.
addShortcutToFile(shortcut) ==
    WriteShortcutsFile(mergeShortcut(readOrEmpty(file), shortcut))

AddGameToSteam(game) ==
    /\ input.kind = "idle"
    /\ Len(log) < MaxCalls
    /\ IF steam # Found
       THEN /\ log' = Append(log, Call("AddGameToSteam", <<game>>, steam, FALSE))
            /\ UNCHANGED file
       ELSE /\ addShortcutToFile(createShortcutFromGame(game))
            /\ log' = Append(log, Call("AddGameToSteam", <<game>>, Nil,
                                       checkGameExistsInSteam(file, game)))
    /\ UNCHANGED <<steam, input, output>>

AddAllGamesToSteam(games) ==
    /\ input.kind = "idle"
    /\ Len(log) < MaxCalls
    /\ IF Len(games) = 0
       THEN /\ log' = Append(log, Call("AddAllGamesToSteam", games, NoGames, FALSE))
            /\ UNCHANGED file
       ELSE IF steam # Found
       THEN /\ log' = Append(log, Call("AddAllGamesToSteam", games, steam, FALSE))
            /\ UNCHANGED file
       ELSE /\ WriteShortcutsFile(batchMerge(readOrEmpty(file), games))
            /\ log' = Append(log, Call("AddAllGamesToSteam", games, Nil, FALSE))
    /\ UNCHANGED <<steam, input, output>>

Next ==
    \/ \E game \in Games : AddGameToSteam(game)
    \/ \E games \in SeqsUpTo(LibraryGames, MaxBatch) : AddAllGamesToSteam(games)

Spec == Init /\ [][Next]_vars

----------------------------------------------------------------------------
(* The functions on their own: one call of a function of the codec or of    *)
(* the merge, on an input drawn from the sets below.                        *)

AppIDOf(name) == generateAppID(name, <<>>)

\* A shortcut of the store that its user has tuned in Steam: every field a
\* merge has to keep differs from what createShortcutFromGame would put there.
Tuned(appID, appName) ==
    [AppID |-> appID, AppName |-> appName, Exe |-> <<47, 111>>, StartDir |-> <<47>>,
     Icon |-> <<111>>, ShortcutPath |-> <<47, 115>>, LaunchOptions |-> <<45, 102>>,
     IsHidden |-> TRUE, AllowDesktopConfig |-> FALSE, AllowOverlay |-> FALSE,
     OpenVR |-> TRUE, Devkit |-> TRUE, DevkitGameID |-> <<100>>,
     DevkitOverrideAppID |-> <<0, 7>>, LastPlayTime |-> <<1, 4200>>,
     FlatpakAppID |-> <<102>>, Tags |-> <<RPG, appName>>,
     UnknownStrings |-> MapPut(EmptyMap, FieldX, appName),
     UnknownInts |-> MapPut(EmptyMap, FieldY, appID)]

\* The records of the stores a merge is run on: tuned ones under every pairing
\* of the names with the ids, and ones the launcher added before.
MergeRecords ==
    {Tuned(appID, appName) : appID \in {AppIDOf(NameA), AppIDOf(NameB), LegacyID},
                             appName \in {NameA, NameSpA, NameB}}
    \cup {createShortcutFromGame(Game(NameA, Exe1, <<>>, <<>>)),
          createShortcutFromGame(Game(NameB, Exe1, <<>>, <<>>))}

MergeOneInputs ==
    [kind : {"mergeOne"}, store : SeqsUpTo(MergeRecords, MaxStore), game : Games]

\* Stores handed to the batch loop: one name under a foreign id, under its own
\* id and under the other name's id, and the other name likewise.
BatchRecords ==
    {Tuned(LegacyID, NameA), Tuned(AppIDOf(NameA), NameA), Tuned(AppIDOf(NameB), NameA),
     Tuned(LegacyID, NameB), Tuned(AppIDOf(NameB), NameB), Tuned(AppIDOf(NameA), NameB)}

MergeBatchInputs ==
    [kind : {"mergeBatch"}, store : SeqsUpTo(BatchRecords, MaxStore),
     games : SeqsUpTo(Games, MaxBatch) \ {<<>>}]

\* Stores handed to the writer.  Strings hold the bytes of the type tags, the
\* integers hold 0x00 and 0x08 bytes and bit 31, the maps hold names that are
\* known under the other wire type.
Tricky ==
    [ZeroShortcut EXCEPT
        !.AppID = <<32768, 8>>, !.AppName = <<8>>, !.Exe = <<1, 2>>,
        !.LastPlayTime = <<2048, 0>>, !.Tags = << <<>>, <<8>>, RPG >>,
        !.UnknownStrings = MapPut(MapPut(EmptyMap, <<>>, <<8>>), K_IsHidden, <<49>>),
        !.UnknownInts = MapPut(MapPut(EmptyMap, FieldX, <<8, 0>>), K_exe, <<65535, 65535>>)]

ElevenTags == [i \in 1..11 |-> <<96 + i>>]

RoundTripRecords ==
    {ZeroShortcut, Tricky, Tuned(LegacyID, NameSpA),
     createShortcutFromGame(Game(NameA, Exe2, <<>>, Image)),
     [ZeroShortcut EXCEPT !.Tags = ElevenTags],
     [ZeroShortcut EXCEPT !.IsHidden = TRUE],
     [ZeroShortcut EXCEPT !.AllowDesktopConfig = TRUE],
     [ZeroShortcut EXCEPT !.AllowOverlay = TRUE],
     [ZeroShortcut EXCEPT !.OpenVR = TRUE],
     [ZeroShortcut EXCEPT !.Devkit = TRUE],
     [ZeroShortcut EXCEPT !.StartDir = Slash],
     [ZeroShortcut EXCEPT !.Icon = Image],
     [ZeroShortcut EXCEPT !.ShortcutPath = Slash],
     [ZeroShortcut EXCEPT !.LaunchOptions = Quote],
     [ZeroShortcut EXCEPT !.DevkitGameID = Dot],
     [ZeroShortcut EXCEPT !.DevkitOverrideAppID = <<0, 256>>],
     [ZeroShortcut EXCEPT !.FlatpakAppID = DotDot]}

RoundTripInputs ==
    [kind : {"roundtrip"}, store : SeqsUpTo(RoundTripRecords, MaxRoundTrip)]


\* Buffers handed to the parser: a file of up to MaxWireRecs records under a
\* root, cut after its first cut bytes.
NestedRecord ==
    <<WStr(K_AppName, <<8>>), WInt(K_appid, <<8, 8, 0, 8>>),
      WDict(FieldZ, <<WStr(FieldX, <<8>>), WDict(FieldY, <<WInt(FieldZ, <<0, 0, 0, 0>>)>>)>>),
      WDict(K_tags, <<WStr(<<48>>, <<8>>), WInt(<<49>>, <<>>)>>),
      WInt(K_IsHidden, <<1, 0, 0, 0>>)>>

WireRecords == {<<>>, SteamRecord, NestedRecord}

K_Shortcuts == <<83>> \o Tail(K_shortcuts)  \* "Shortcuts"

Roots ==
    {<<TypeDict, K_shortcuts>>, <<TypeDict, K_Shortcuts>>, <<TypeDict, <<>> >>,
     <<TypeString, K_shortcuts>>, <<TypeEnd, K_shortcuts>>}

ParseInputs ==
    UNION {[kind : {"parse"}, rootType : {root[1]}, rootKey : {root[2]},
            records : {records},
            cut : 0..Len(wireFile(root[1], root[2], records))] :
              root \in Roots, records \in SeqsUpTo(WireRecords, MaxWireRecs)}

\* Accepted buffers that are parsed, written and parsed again: one record of
\* up to MaxWireFields fields.
WireFields ==
    {WStr(FieldX, <<118>>), WStr(FieldX, <<119>>), WStr(FieldY, <<>>),
     WInt(FieldX, <<1, 0, 0, 0>>), WInt(FieldX, <<2, 0, 0, 128>>),
     WStr(K_AppName, NameA), WStr(K_IsHidden, <<49>>), WInt(K_LastPlayTime, <<8, 0, 0, 0>>),
     WStr(K_Icon, Image), WInt(K_AppID, <<7, 0, 0, 0>>),
     WDict(FieldZ, <<WStr(FieldX, <<113>>)>>), WDict(K_tags, <<WStr(<<48>>, RPG)>>)}

ReparseInputs ==
    [kind : {"reparse"}, fields : SeqsUpTo(WireFields, MaxWireFields)]

\* Pairs of games whose ids are compared.
IdNames ==
    {<<>>, NameA, NameSpA, <<97, 32>>, <<9, 65, 10>>, NameB, <<98>>, <<65, 32, 66>>}

IdGames == {Game(name, exe, <<>>, <<>>) : name \in IdNames, exe \in {Exe1, Exe2}}

AppIDInputs == [kind : {"appid"}, a : IdGames, b : IdGames]

\* Records whose "tags" dictionary, or another dictionary, is not the run of
\* string entries "0", "1", ... that the writer produces.
BadTagInTags ==
    <<WStr(K_AppName, NameA), WDict(K_tags, <<WRaw(3, <<48>>, <<>>), WStr(<<49>>, RPG)>>)>>
IntInTags ==
    <<WStr(K_AppName, NameA),
      WDict(K_tags, <<WInt(<<48>>, <<7, 0, 0, 0>>), WStr(<<49>>, RPG)>>)>>
BadTagInDict == <<WStr(K_AppName, NameA), WDict(FieldZ, <<WRaw(3, FieldX, <<>>)>>)>>
BadTagInRecord == <<WStr(K_AppName, NameA), WRaw(3, FieldX, <<>>)>>
OrderedTags == <<WDict(K_tags, <<WStr(<<48>>, NameA), WStr(<<49>>, RPG)>>)>>
SwappedTags == <<WDict(K_tags, <<WStr(<<49>>, RPG), WStr(<<48>>, NameA)>>)>>

TagRecords ==
    {BadTagInTags, IntInTags, BadTagInDict, BadTagInRecord, OrderedTags, SwappedTags}

\* Whole files of one such record.
TagInputs ==
    {[kind |-> "parse", rootType |-> TypeDict, rootKey |-> K_shortcuts,
      records |-> <<record>>,
      cut |-> Len(wireFile(TypeDict, K_shortcuts, <<record>>))] : record \in TagRecords}

\* Executables handed to createShortcutFromGame: one per probed byte in the
\* last element, and paths with no parent, at the root, relative, and unclean.
ProbedBytes ==
    specialChars \cup {9, 33, 35, 36, 37, 43, 44, 45, 46, 47, 58, 61, 64, 94, 95, 97, 126}

Paths ==
    {<<47, 103, 47, b>> : b \in ProbedBytes}
    \cup {<<>>, <<120>>, <<47, 120>>, Slash, <<47, 103, 47>>, <<47, 103, 47, 47, 120>>,
          <<46, 47, 120>>, <<46, 46, 47, 120>>, <<47, 103, 47, 46, 46, 47, 120>>,
          <<103, 47, 120>>, <<47, 47, 120>>, Exe1, Exe2,
          <<47, 103, 32, 40, 49, 41, 47, 120, 34, 121, 34>>}

\* Two games handed to the batch loop in both orders.
MergeOrdersInputs ==
    [kind : {"mergeOrders"}, store : SeqsUpTo(BatchRecords, MaxStore),
     games : [1..2 -> Games]]

CandidateInputs ==
    [kind : {"candidate"}, game : {Game(NameA, path, <<>>, <<>>) : path \in Paths}]

FnInit ==
    /\ steam = Found
    /\ file = NoFile
    /\ log = <<>>
    /\ output = Pending
    /\ \/ input \in MergeOneInputs
       \/ input \in MergeBatchInputs
       \/ input \in RoundTripInputs
       \/ input \in ParseInputs
       \/ input \in TagInputs
       \/ input \in ReparseInputs
       \/ input \in AppIDInputs
       \/ input \in CandidateInputs
       \/ input \in MergeOrdersInputs

Return(out) ==
    /\ ~output.done
    /\ output' = out
    /\ UNCHANGED <<steam, file, log, input>>

\* The merge of addShortcutToFile on input.store.
\* What the merge is handed and what it leaves.
MergedOne(shortcut) ==
    [done |-> TRUE, candidate |-> shortcut,
     shortcuts |-> mergeShortcut(input.store, shortcut)]

MergeOne ==
    /\ input.kind = "mergeOne"
    /\ Return(MergedOne(createShortcutFromGame(input.game)))

\* The merge loop of AddAllGamesToSteam on input.store.
MergeBatch ==
    /\ input.kind = "mergeBatch"
    /\ Return([done |-> TRUE,
               candidates |-> [k \in DOMAIN input.games |->
                                  createShortcutFromGame(input.games[k])],
               trace |-> batchTrace(input.store, input.games, 1)])

Built(data) == [done |-> TRUE, data |-> data, read |-> parseShortcutsVDF(data)]

\* buildShortcutsVDF on input.store, then parseShortcutsVDF on what it wrote.
RoundTrip ==
    /\ input.kind = "roundtrip"
    /\ \E orders \in RangeOrders(input.store) :
           Return(Built(buildShortcutsVDF(input.store, orders)))

ParseData(in) == Prefix(wireFile(in.rootType, in.rootKey, in.records), in.cut)

\* parseShortcutsVDF on a buffer.
Parse ==
    /\ input.kind = "parse"
    /\ Return([done |-> TRUE, read |-> parseShortcutsVDF(ParseData(input))])

ReparseData(in) == wireFile(TypeDict, K_shortcuts, <<in.fields>>)

\* What was read, the bytes written for it, and what is read from them.
Reread(first, data) ==
    [done |-> TRUE, first |-> first, data |-> data, second |-> parseShortcutsVDF(data)]

Rebuilt(first) ==
    \E orders \in RangeOrders(first.val) :
        Return(Reread(first, buildShortcutsVDF(first.val, orders)))

\* parseShortcutsVDF, buildShortcutsVDF on what it read, parseShortcutsVDF again.
Reparse ==
    /\ input.kind = "reparse"
    /\ Rebuilt(parseShortcutsVDF(ReparseData(input)))

\* generateAppID for two games.
AppIDs ==
    /\ input.kind = "appid"
    /\ Return([done |-> TRUE,
               a |-> generateAppID(input.a.Name, input.a.Executable),
               b |-> generateAppID(input.b.Name, input.b.Executable)])

\* CreateShortcutFromGame on a game.
CreateShortcut ==
    /\ input.kind = "candidate"
    /\ Return([done |-> TRUE, shortcut |-> createShortcutFromGame(input.game)])

\* The merge loop of AddAllGamesToSteam on input.store, once over the two
\* games as given (forth) and once over them in the other order (back).
MergeOrders ==
    /\ input.kind = "mergeOrders"
    /\ Return([done |-> TRUE,
               candidates |-> [k \in 1..2 |-> createShortcutFromGame(input.games[k])],
               forth |-> batchMerge(input.store, input.games),
               back |-> batchMerge(input.store, <<input.games[2], input.games[1]>>)])

FnNext ==
    \/ MergeOne
    \/ MergeBatch
    \/ RoundTrip
    \/ Parse
    \/ Reparse
    \/ AppIDs
    \/ CreateShortcut
    \/ MergeOrders

FnSpec == FnInit /\ [][FnNext]_vars


----------------------------------------------------------------------------
(* Properties of the program (specification Spec) *)

LastCall == log[Len(log)]

\* C1: when shortcuts.vdf exists and parseShortcutsVDF fails on it, a call of
\* AddGameToSteam or AddAllGamesToSteam returns an error and writes nothing:
\* the file after the call is the file before the call.
C1_NoWriteOnParseError ==
    (/\ log # <<>>
     /\ LastCall.pre.exists
     /\ parseShortcutsVDF(LastCall.pre.data).err # Nil)
    => (LastCall.err # Nil /\ file = LastCall.pre)

\* Two calls of AddGameToSteam that went through, for the same name with
\* two executables, the first on an empty store.
SameNameTwice ==
    /\ Len(log) = 2
    /\ log[1].pre \in {NoFile, File(EmptyStoreFile)}
    /\ \A k \in 1..2 : log[k].op = "AddGameToSteam" /\ log[k].err = Nil
    /\ log[1].games[1].Name = log[2].games[1].Name
    /\ log[1].games[1].Executable # log[2].games[1].Executable

HoldsOnly(read, shortcut) ==
    /\ read.err = Nil
    /\ Len(read.val) = 1
    /\ read.val[1].Exe = shortcut.Exe
    /\ read.val[1].StartDir = shortcut.StartDir

\* C5: from an empty store, adding a game and then adding a game of the same
\* name with another executable leaves exactly one record, whose Exe and
\* StartDir are those of the second candidate.
C5_SecondMergeUpdates ==
    SameNameTwice
    => HoldsOnly(ReadShortcutsFile(file), createShortcutFromGame(log[2].games[1]))

C5_Witness ==
    /\ SameNameTwice
    /\ ~log[1].pre.exists
    /\ log[2].games[1] = Game(NameA, Exe2, <<>>, Image)
    /\ parseShortcutsVDF(file.data).val[1].Exe = Quote \o Exe2 \o Quote
    /\ parseShortcutsVDF(file.data).val[1].StartDir = <<47, 103, 32, 121, 47>>


----------------------------------------------------------------------------
(* Properties of the functions (specification FnSpec) *)

\* C2: for every store the writer is handed, parseShortcutsVDF succeeds on
\* what buildShortcutsVDF wrote and returns the same store: the same records
\* in the same order, each with the same known fields, unknown string and
\* integer fields, and tags in the same order.
C2_RoundTrip ==
    (input.kind = "roundtrip" /\ output.done)
    => output.read = [err |-> Nil, val |-> input.store]

C2_Witness ==
    /\ input.kind = "roundtrip"
    /\ output.done
    /\ Len(input.store) = 2
    /\ input.store[1] = Tricky
    /\ input.store[2] = Tuned(LegacyID, NameSpA)
    /\ output.read.val[1].UnknownInts[K_exe] = <<65535, 65535>>
    /\ output.read.val[2].Tags = <<RPG, NameSpA>>

\* The candidate made for a game.
Candidate(game) == createShortcutFromGame(game)

\* An existing record and a candidate are matched by AppID or by normalized
\* name.
Matches(existing, shortcut) ==
    \/ existing.AppID = shortcut.AppID
    \/ normalizeName(existing.AppName) = normalizeName(shortcut.AppName)

\* The fields a merge keeps from the existing record.
Kept(existing, result) ==
    /\ result.ShortcutPath = existing.ShortcutPath
    /\ result.LaunchOptions = existing.LaunchOptions
    /\ result.IsHidden = existing.IsHidden
    /\ result.AllowDesktopConfig = existing.AllowDesktopConfig
    /\ result.AllowOverlay = existing.AllowOverlay
    /\ result.OpenVR = existing.OpenVR
    /\ result.Devkit = existing.Devkit
    /\ result.DevkitGameID = existing.DevkitGameID
    /\ result.DevkitOverrideAppID = existing.DevkitOverrideAppID
    /\ result.LastPlayTime = existing.LastPlayTime
    /\ result.FlatpakAppID = existing.FlatpakAppID
    /\ result.Tags = existing.Tags
    /\ result.UnknownStrings = existing.UnknownStrings
    /\ result.UnknownInts = existing.UnknownInts

\* Every record of before that the candidate matches is, in after, a record
\* with the kept fields as they were.
KeepsMatched(before, shortcut, after) ==
    \A i \in DOMAIN before :
        Matches(before[i], shortcut) => (i \in DOMAIN after /\ Kept(before[i], after[i]))

\* P(before, candidate, after) at the merge of a "mergeOne" call and at each
\* pass of the loop of a "mergeBatch" call.
AtEachMerge(P(_, _, _)) ==
    /\ (input.kind = "mergeOne" /\ output.done)
       => P(input.store, output.candidate, output.shortcuts)
    /\ (input.kind = "mergeBatch" /\ output.done)
       => \A k \in DOMAIN input.games :
              P(output.trace[k], output.candidates[k], output.trace[k + 1])

\* C3: when a merge, single or in a batch, matches a candidate to an existing
\* record, the record that results keeps the existing record's ShortcutPath,
\* LaunchOptions, IsHidden, AllowDesktopConfig, AllowOverlay, OpenVR, Devkit,
\* DevkitGameID, DevkitOverrideAppID, LastPlayTime, FlatpakAppID, Tags and
\* unknown string and integer fields.
C3_MergeKeepsUserFields == AtEachMerge(KeepsMatched)

C3_Witness ==
    /\ input.kind = "mergeOne"
    /\ output.done
    /\ input.store = <<Tuned(LegacyID, NameA)>>
    /\ input.game = Game(NameA, Exe2, <<>>, Image)
    /\ output.shortcuts[1].Exe = Quote \o Exe2 \o Quote
    /\ output.shortcuts[1].AppID = <<48447, 18457>>
    /\ output.shortcuts[1].LaunchOptions = <<45, 102>>
    /\ output.shortcuts[1].UnknownInts[FieldY] = LegacyID

NoDuplicateNames(shortcuts) ==
    \A i, j \in DOMAIN shortcuts :
        i # j => normalizeName(shortcuts[i].AppName) # normalizeName(shortcuts[j].AppName)

\* No record carries the AppID of one of the shortcuts under another name,
\* and shortcuts of different names have different AppIDs.
AppIDsFollowNames(shortcuts, candidates) ==
    /\ \A i \in DOMAIN shortcuts : \A c \in candidates :
           shortcuts[i].AppID = c.AppID
               => normalizeName(shortcuts[i].AppName) = normalizeName(c.AppName)
    /\ \A c, d \in candidates :
           c.AppID = d.AppID => normalizeName(c.AppName) = normalizeName(d.AppName)

\* The store before and after the merge of a call, and the candidates merged.
MergeDone == input.kind \in {"mergeOne", "mergeBatch"} /\ output.done
MergeResult ==
    IF input.kind = "mergeOne" THEN output.shortcuts ELSE Final(output.trace)
MergeCandidates ==
    IF input.kind = "mergeOne" THEN {output.candidate}
    ELSE {output.candidates[k] : k \in DOMAIN input.games}

\* C4 (as stated): after a merge, single or batch, on any store that the
\* parser can return, no two records have the same normalized AppName.
C4_NoDuplicateNamesAfterMerge == MergeDone => NoDuplicateNames(MergeResult)

\* C4 (amended): the same, for a store that has no two records of the same
\* normalized AppName to begin with, in which no record carries the AppID of
\* a candidate under another normalized name, the candidates themselves
\* having different AppIDs where their normalized names differ.
C4_NoDuplicateNamesKept ==
    (/\ MergeDone
     /\ NoDuplicateNames(input.store)
     /\ AppIDsFollowNames(input.store, MergeCandidates))
    => NoDuplicateNames(MergeResult)

C4_Witness ==
    /\ input.kind = "mergeBatch"
    /\ output.done
    /\ input.store = <<Tuned(LegacyID, NameA), Tuned(AppIDOf(NameB), NameB)>>
    /\ input.games = <<Game(NameSpA, Exe1, <<>>, <<>>), Game(NameB, Exe1, <<>>, <<>>)>>
    /\ AppIDsFollowNames(input.store, MergeCandidates)
    /\ Len(MergeResult) = 2
    /\ MergeResult[1].AppName = NameSpA
    /\ MergeResult[2].Exe = Exe1


\* The field names the parser has a slot for.
KnownNames ==
    {K_appid, K_AppID, K_appname, K_AppName, K_exe, K_Exe, K_StartDir, K_icon,
     K_Icon, K_ShortcutPath, K_LaunchOptions, K_IsHidden, K_AllowDesktopConfig,
     K_AllowOverlay, K_OpenVR, K_Devkit, K_DevkitGameID, K_DevkitOverrideAppID,
     K_LastPlayTime, K_FlatpakAppID}

\* The buffer was accepted, and what was parsed, written and parsed again is
\* one record.
Reparsed ==
    /\ input.kind = "reparse"
    /\ output.done
    /\ output.first.err = Nil

\* The record read back holds field f: its name, under its wire type, with
\* its value.
ReadBack(read, f) ==
    /\ read.err = Nil
    /\ Len(read.val) = 1
    /\ f.t = TypeString =>
           /\ f.n \in DOMAIN read.val[1].UnknownStrings
           /\ read.val[1].UnknownStrings[f.n] = f.v
    /\ f.t = TypeInt =>
           /\ f.n \in DOMAIN read.val[1].UnknownInts
           /\ read.val[1].UnknownInts[f.n] = Uint32At(f.v, 1)

UnknownField(f) == f.t \in {TypeString, TypeInt} /\ f.n \notin KnownNames

\* No later field of the record has the name and the wire type of field k.
LastOfItsName(fields, k) ==
    \A l \in DOMAIN fields : l > k => ~(fields[l].n = fields[k].n /\ fields[l].t = fields[k].t)

C7_AppIDOfNormalizedName ==
    (/\ input.kind = "appid"
     /\ output.done
     /\ ToLower(TrimSpace(input.a.Name)) = ToLower(TrimSpace(input.b.Name)))
    => output.a = output.b

C7_Witness ==
    /\ input.kind = "appid"
    /\ output.done
    /\ input.a = Game(<<9, 65, 10>>, Exe1, <<>>, <<>>)
    /\ input.b = Game(<<97, 32>>, Exe2, <<>>, <<>>)
    /\ output.a = <<48447, 18457>>
    /\ output.b = <<48447, 18457>>

\* The root of the buffer is there and is not the dictionary "shortcuts".
BadRoot(in) ==
    \/ in.rootType # TypeDict /\ in.cut >= 1
    \/ in.rootKey # K_shortcuts /\ in.cut >= Len(wireHeader(in.rootType, in.rootKey))

\* The bytes before record k of the file.
RecordStart(in, k) ==
    Len(wireHeader(in.rootType, in.rootKey)) + Len(wireRecords(in.records, k - 1))

\* The buffer ends after the first byte of a record and before its last.
EndsInsideRecord(in) ==
    \E k \in DOMAIN in.records :
        /\ RecordStart(in, k) < in.cut
        /\ in.cut < RecordStart(in, k) + Len(wireRecord(k - 1, in.records[k]))

\* C8: parseShortcutsVDF returns an error and nil, never the records read so
\* far, for a buffer whose root type is not 0x00 or whose root key is not
\* "shortcuts", and for a buffer that ends inside a record.
C8_ParseErrorsReturnNoStore ==
    (/\ input.kind = "parse"
     /\ output.done
     /\ BadRoot(input) \/ EndsInsideRecord(input))
    => (output.read.err # Nil /\ output.read.val = <<>>)

C8_Witness ==
    /\ input.kind = "parse"
    /\ output.done
    /\ input.rootType = TypeDict
    /\ input.rootKey = K_shortcuts
    /\ input.records = <<SteamRecord, NestedRecord>>
    /\ input.cut = RecordStart(input, 2) + 30
    /\ EndsInsideRecord(input)
    /\ output.read.err = EOF


\* C9: for every store and every two candidates for different games, the
\* store the batch loop of AddAllGamesToSteam leaves for [c1, c2] is the store
\* that the merge of addShortcutToFile leaves for c1 and then for c2.
C9_BatchIsTwoSingleMerges ==
    (/\ input.kind = "mergeBatch"
     /\ output.done
     /\ Len(input.games) = 2
     /\ input.games[1] # input.games[2])
    => Final(output.trace)
           = mergeShortcut(mergeShortcut(input.store, Candidate(input.games[1])),
                           Candidate(input.games[2]))

C9_Witness ==
    /\ input.kind = "mergeBatch"
    /\ output.done
    /\ input.store = <<Tuned(LegacyID, NameB), Tuned(AppIDOf(NameB), NameA)>>
    /\ input.games = <<Game(NameA, Exe2, <<>>, Image), Game(NameB, Exe1, <<>>, <<>>)>>
    /\ Len(Final(output.trace)) = 2
    /\ Final(output.trace)[1].Exe = Exe1
    /\ Final(output.trace)[2].Icon = Image

\* after is before with record i updated from the candidate and every other
\* record as it was.
UpdatedAt(before, shortcut, after, i) ==
    /\ Len(after) = Len(before)
    /\ after[i].AppID = shortcut.AppID
    /\ after[i].AppName = shortcut.AppName
    /\ after[i].Exe = shortcut.Exe
    /\ after[i].StartDir = shortcut.StartDir
    /\ after[i].Icon = shortcut.Icon
    /\ \A j \in DOMAIN before : j # i => after[j] = before[j]

Least(S) == CHOOSE i \in S : \A j \in S : i <= j

WithAppID(before, shortcut) == {i \in DOMAIN before : before[i].AppID = shortcut.AppID}

WithName(before, shortcut) ==
    {i \in DOMAIN before :
        normalizeName(before[i].AppName) = normalizeName(shortcut.AppName)}

\* The match rule with the AppID first: the first record with the candidate's
\* AppID if there is one, the first record with its name only if there is none.
AppIDHasPriority(before, shortcut, after) ==
    /\ WithAppID(before, shortcut) # {}
       => UpdatedAt(before, shortcut, after, Least(WithAppID(before, shortcut)))
    /\ (WithAppID(before, shortcut) = {} /\ WithName(before, shortcut) # {})
       => UpdatedAt(before, shortcut, after, Least(WithName(before, shortcut)))

\* The match rule record by record: the first record that has the candidate's
\* AppID or its name.
FirstMatchWins(before, shortcut, after) ==
    (WithAppID(before, shortcut) \cup WithName(before, shortcut)) # {}
    => UpdatedAt(before, shortcut, after,
                 Least(WithAppID(before, shortcut) \cup WithName(before, shortcut)))

\* C10 (as stated): when some record has the candidate's AppID, the record
\* updated is the first record with that AppID; a record that matches by
\* normalized name only is chosen only when no record has the AppID.
C10_AppIDMatchHasPriority == AtEachMerge(AppIDHasPriority)

\* C10 (amended): the record updated is the first record of the store that
\* has the candidate's AppID or the candidate's normalized name; the AppID
\* is tested before the name within one record, so a record that matches by
\* name only is chosen when it comes before every record with the AppID.
C10_FirstMatchingRecordWins == AtEachMerge(FirstMatchWins)

C10_Witness ==
    /\ input.kind = "mergeOne"
    /\ output.done
    /\ input.store = <<Tuned(LegacyID, NameA), Tuned(AppIDOf(NameA), NameB)>>
    /\ input.game = Game(NameA, Exe1, <<>>, <<>>)
    /\ output.shortcuts[1].Exe = Exe1
    /\ output.shortcuts[1].AppID = AppIDOf(NameA)
    /\ output.shortcuts[2] = Tuned(AppIDOf(NameA), NameB)


\* The records of before that the candidate matches, by AppID or by name.
Matching(before, shortcut) == WithAppID(before, shortcut) \cup WithName(before, shortcut)

\* result has the candidate's AppID, AppName, Exe, StartDir and Icon, and the
\* AppID is the one computed from the candidate's name.
Overwritten(result, shortcut) ==
    /\ result.AppID = shortcut.AppID
    /\ result.AppID = generateAppID(shortcut.AppName, <<>>)
    /\ result.AppName = shortcut.AppName
    /\ result.Exe = shortcut.Exe
    /\ result.StartDir = shortcut.StartDir
    /\ result.Icon = shortcut.Icon

OverwritesMatched(before, shortcut, after) ==
    Matching(before, shortcut) # {}
    => /\ Len(after) = Len(before)
       /\ Overwritten(after[Least(Matching(before, shortcut))], shortcut)

\* C11: when a merge matches a candidate to an existing record, the record
\* that results has the candidate's AppID, AppName, Exe, StartDir and Icon,
\* the AppID being the id computed from the candidate's name, also when the
\* existing record was matched by name only and had another AppID.
C11_MergeOverwritesIdentity == AtEachMerge(OverwritesMatched)

C11_Witness ==
    /\ input.kind = "mergeOne"
    /\ output.done
    /\ input.store = <<Tuned(LegacyID, NameB), Tuned(LegacyID, NameA)>>
    /\ input.game = Game(NameSpA, Exe1, <<>>, <<>>)
    /\ WithAppID(input.store, Candidate(input.game)) = {}
    /\ output.shortcuts[2].AppID = <<48447, 18457>>
    /\ output.shortcuts[2].AppName = NameSpA
    /\ output.shortcuts[2].Exe = Exe1
    /\ output.shortcuts[2].Icon = <<>>
    /\ output.shortcuts[2].LastPlayTime = <<1, 4200>>

\* P(before, game, candidate, after) at the merge of a "mergeOne" call and at
\* each pass of the loop of a "mergeBatch" call.
AtEachGame(P(_, _, _, _)) ==
    /\ (input.kind = "mergeOne" /\ output.done)
       => P(input.store, input.game, output.candidate, output.shortcuts)
    /\ (input.kind = "mergeBatch" /\ output.done)
       => \A k \in DOMAIN input.games :
              P(output.trace[k], input.games[k], output.candidates[k], output.trace[k + 1])

\* A record as it is appended for a game of that name.
NewRecord(result, name) ==
    /\ result.AppID = generateAppID(name, <<>>)
    /\ result.AppName = name
    /\ result.AllowDesktopConfig /\ result.AllowOverlay
    /\ ~result.IsHidden /\ ~result.OpenVR /\ ~result.Devkit
    /\ result.ShortcutPath = <<>> /\ result.LaunchOptions = <<>>
    /\ result.DevkitGameID = <<>> /\ result.FlatpakAppID = <<>>
    /\ result.DevkitOverrideAppID = Zero32 /\ result.LastPlayTime = Zero32
    /\ result.Tags = <<>>

AppendsNew(before, game, shortcut, after) ==
    Matching(before, shortcut) = {}
    => /\ Len(after) = Len(before) + 1
       /\ SubSeq(after, 1, Len(before)) = before
       /\ NewRecord(after[Len(after)], game.Name)

\* C12: when no existing record matches the candidate, the merge appends one
\* record at the end of the store: the AppID computed from the game's name,
\* the game's name, AllowDesktopConfig and AllowOverlay true, IsHidden, OpenVR
\* and Devkit false, ShortcutPath, LaunchOptions, DevkitGameID and FlatpakAppID
\* empty, DevkitOverrideAppID and LastPlayTime zero, no tags.
C12_NoMatchAppendsDefaults == AtEachGame(AppendsNew)

C12_Witness ==
    /\ input.kind = "mergeOne"
    /\ output.done
    /\ input.store = <<Tuned(LegacyID, NameB)>>
    /\ input.game = Game(NameA, Exe2, <<>>, Image)
    /\ Len(output.shortcuts) = 2
    /\ output.shortcuts[1] = Tuned(LegacyID, NameB)
    /\ output.shortcuts[2].AppID = <<48447, 18457>>
    /\ output.shortcuts[2].AllowOverlay
    /\ output.shortcuts[2].Icon = Image
    /\ output.shortcuts[2].Tags = <<>>


----------------------------------------------------------------------------
(* More properties of the program (specification Spec) *)

\* The last call added one game, Steam being found and shortcuts.vdf missing.
AddedWithoutFile ==
    /\ log # <<>>
    /\ steam = Found
    /\ ~LastCall.pre.exists
    /\ Len(LastCall.games) = 1

\* C13: when shortcuts.vdf does not exist (and Steam is found), adding a game
\* returns no error and the file written holds exactly one record, the
\* candidate built from the game.
C13_MissingFileIsEmptyStore ==
    AddedWithoutFile
    => /\ LastCall.err = Nil
       /\ file.exists
       /\ ReadShortcutsFile(file)
              = [err |-> Nil, val |-> <<createShortcutFromGame(LastCall.games[1])>>]

C13_Witness ==
    /\ AddedWithoutFile
    /\ Len(log) = 1
    /\ LastCall.op = "AddGameToSteam"
    /\ LastCall.games[1] = Game(NameA, Exe2, <<>>, Image)
    /\ LastCall.err = Nil
    /\ Len(ReadShortcutsFile(file).val) = 1
    /\ ReadShortcutsFile(file).val[1].Exe = Quote \o Exe2 \o Quote
    /\ ReadShortcutsFile(file).val[1].AllowOverlay


----------------------------------------------------------------------------
(* More properties of the functions (specification FnSpec) *)

\* C14 (as stated): for every buffer that parseShortcutsVDF accepts,
\* buildShortcutsVDF of the store it returns is the buffer, byte for byte.
C14_ParseThenBuildIsIdentity == Reparsed => output.data = ReparseData(input)

\* bytes lie in data, from some position on.
Contains(data, bytes) ==
    \E i \in 1..(Len(data) - Len(bytes) + 1) :
        SubSeq(data, i, i + Len(bytes) - 1) = bytes

\* C15 (as stated): every field of every record of an accepted input, a
\* nested dictionary that is not "tags" included, is present with its content
\* in what buildShortcutsVDF writes for the parsed store.
C15_NoFieldDropped ==
    Reparsed
    => \A k \in DOMAIN input.fields : Contains(output.data, wireField(input.fields[k]))


\* Bit 31 of a uint32 is set: the value is at least 0x80000000.
HighBit(u) == u[1] >= 32768

\* The record that the merge of a candidate updated or appended.
Merged(before, shortcut, after) ==
    IF Matching(before, shortcut) = {} THEN after[Len(after)]
    ELSE after[Least(Matching(before, shortcut))]

MergedHasHighBit(before, shortcut, after) ==
    HighBit(shortcut.AppID) /\ HighBit(Merged(before, shortcut, after).AppID)

\* C16: every id that generateAppID returns has bit 31 set, for the empty
\* name too, and so has the AppID of every candidate that
\* createShortcutFromGame builds and of every record that a merge updated or
\* appended.
C16_AppIDHasHighBit ==
    /\ (input.kind = "appid" /\ output.done) => (HighBit(output.a) /\ HighBit(output.b))
    /\ AtEachMerge(MergedHasHighBit)

C16_Witness ==
    /\ input.kind = "appid"
    /\ output.done
    /\ input.a = Game(<<>>, Exe1, <<>>, <<>>)
    /\ input.b = Game(NameB, Exe2, <<>>, <<>>)
    /\ output.a = <<53762, 61325>>
    /\ output.b = <<38418, 7130>>


\* The records of before that are not as they were in after.
Changed(before, after) ==
    {i \in DOMAIN before : i \notin DOMAIN after \/ after[i] # before[i]}

ChangesAtMostOne(before, shortcut, after) ==
    /\ Len(before) <= Len(after)
    /\ Len(after) <= Len(before) + 1
    /\ Cardinality(Changed(before, after)) <= 1
    /\ Matching(before, shortcut) = {} => Changed(before, after) = {}
    /\ Matching(before, shortcut) # {}
       => /\ Changed(before, after) \subseteq {Least(Matching(before, shortcut))}
          /\ Len(after) = Len(before)

\* C17: a merge of one candidate changes at most one record: every existing
\* record other than the matched one is as it was, at the index it had, no
\* record is removed, and a new record is added only after the last one.
C17_MergeChangesAtMostOne == AtEachMerge(ChangesAtMostOne)

C17_Witness ==
    /\ input.kind = "mergeBatch"
    /\ output.done
    /\ input.store = <<Tuned(AppIDOf(NameA), NameA), Tuned(LegacyID, NameA)>>
    /\ input.games = <<Game(NameA, Exe2, <<>>, Image)>>
    /\ Changed(output.trace[1], output.trace[2]) = {1}
    /\ output.trace[2][1].Icon = Image
    /\ output.trace[2][2] = Tuned(LegacyID, NameA)


----------------------------------------------------------------------------
(* AddAllGamesToSteam statement by statement: the checks, the read, the     *)
(* passes of the loop over games, the write.  input holds the games, output *)
(* the position in the function and its locals, log the file operations and *)
(* merges in the order they happen.                                         *)

StepInputs == [kind : {"batch"}, games : SeqsUpTo(Games, MaxBatch)]

\* The locals when the function is entered.
Entered == [done |-> FALSE, pc |-> "start", k |-> 0, existingShortcuts |-> <<>>,
            pre |-> NoFile, err |-> Nil]

StepInit ==
    /\ steam \in {Found, NoSteam, NoUserData}
    /\ file \in InitFiles
    /\ log = <<>>
    /\ input \in StepInputs
    /\ output = Entered

\* len(games) == 0, findSteamPath, findUserDataPath.
BatchStart ==
    /\ input.kind = "batch"
    /\ output.pc = "start"
    /\ output' = IF Len(input.games) = 0
                 THEN [output EXCEPT !.done = TRUE, !.pc = "done", !.err = NoGames]
                 ELSE IF steam # Found
                 THEN [output EXCEPT !.done = TRUE, !.pc = "done", !.err = steam]
                 ELSE [output EXCEPT !.pc = "read"]
    /\ UNCHANGED <<steam, file, log, input>>

\* existingShortcuts, err := m.readShortcutsFile(shortcutsPath)
BatchRead ==
    /\ input.kind = "batch"
    /\ output.pc = "read"
    /\ output' = [output EXCEPT !.pc = "loop", !.k = 1, !.pre = file,
                                !.existingShortcuts = readOrEmpty(file)]
    /\ log' = Append(log, "read")
    /\ UNCHANGED <<steam, file, input>>

\* A pass of the loop that writes the file for the game it merged.
BatchLoopWriting ==
    /\ input.kind = "batch"
    /\ output.pc = "loop"
    /\ output.k <= Len(input.games)
    /\ output' = [output EXCEPT
                     !.k = @ + 1,
                     !.existingShortcuts = batchMergeGame(@, input.games[output.k])]
    /\ WriteShortcutsFile(batchMergeGame(output.existingShortcuts, input.games[output.k]))
    /\ log' = log \o <<"merge", "write">>
    /\ UNCHANGED <<steam, input>>

\* One pass of "for _, game := range games".
BatchLoop ==
    /\ input.kind = "batch"
    /\ output.pc = "loop"
    /\ output.k <= Len(input.games)
    /\ output' = [output EXCEPT
                     !.k = @ + 1,
                     !.existingShortcuts = batchMergeGame(@, input.games[output.k])]
    /\ log' = Append(log, "merge")
    /\ UNCHANGED <<steam, file, input>>

\* err = m.writeShortcutsFile(shortcutsPath, existingShortcuts), return nil.
BatchWrite ==
    /\ input.kind = "batch"
    /\ output.pc = "loop"
    /\ output.k > Len(input.games)
    /\ WriteShortcutsFile(output.existingShortcuts)
    /\ output' = [output EXCEPT !.done = TRUE, !.pc = "done"]
    /\ log' = Append(log, "write")
    /\ UNCHANGED <<steam, input>>

StepNext ==
    \/ BatchStart
    \/ BatchRead
    \/ BatchLoop
    \/ BatchWrite

StepSpec == StepInit /\ [][StepNext]_vars

----------------------------------------------------------------------------
(* Properties of AddAllGamesToSteam's steps (specification StepSpec) *)

\* One read, a merge for each of n games, one write.
ReadMergeWrite(n) == <<"read">> \o [k \in 1..n |-> "merge"] \o <<"write">>

IsPrefix(s, t) == Len(s) <= Len(t) /\ s = SubSeq(t, 1, Len(s))

\* How many of the operations so far are op.
Count(op) == Cardinality({i \in DOMAIN log : log[i] = op})

\* C18: AddAllGamesToSteam on a list of N >= 1 games (Steam being found)
\* reads shortcuts.vdf once before any candidate is merged and writes it once
\* after all N are merged, with no read or write in between: the file is as
\* it was until the write, and then holds the batch merge of what was read.
C18_OneReadModifyWrite ==
    (input.kind = "batch" /\ steam = Found /\ Len(input.games) >= 1)
    => /\ IsPrefix(log, ReadMergeWrite(Len(input.games)))
       /\ output.pc = "loop"
          => /\ Count("read") = 1 /\ Count("write") = 0
             /\ Count("merge") = output.k - 1
             /\ file = output.pre
       /\ output.pc = "done"
          => /\ log = ReadMergeWrite(Len(input.games))
             /\ output.err = Nil
             /\ ReadShortcutsFile(file)
                    = [err |-> Nil,
                       val |-> batchMerge(readOrEmpty(output.pre), input.games)]

C18_Witness ==
    /\ input.kind = "batch"
    /\ steam = Found
    /\ input.games = <<Game(NameA, Exe2, <<>>, Image), Game(NameB, Exe1, <<>>, <<>>)>>
    /\ output.pc = "done"
    /\ output.pre = File(SteamFile)
    /\ log = <<"read", "merge", "merge", "write">>
    /\ file # output.pre


----------------------------------------------------------------------------
(* The layout of the bytes written (specification FnSpec) *)

\* The four bytes of a uint32 on disk, and of a boolean.
LittleEndian(u) == <<u[2] % 256, u[2] \div 256, u[1] % 256, u[1] \div 256>>
Flag(b) == IF b THEN <<1, 0, 0, 0>> ELSE <<0, 0, 0, 0>>

\* The sixteen known fields of a record, in the order of the writer.
KnownLayout(shortcut) ==
    <<WInt(K_appid, LittleEndian(shortcut.AppID)),
      WStr(K_AppName, shortcut.AppName),
      WStr(K_Exe, shortcut.Exe),
      WStr(K_StartDir, shortcut.StartDir),
      WStr(K_icon, shortcut.Icon),
      WStr(K_ShortcutPath, shortcut.ShortcutPath),
      WStr(K_LaunchOptions, shortcut.LaunchOptions),
      WInt(K_IsHidden, Flag(shortcut.IsHidden)),
      WInt(K_AllowDesktopConfig, Flag(shortcut.AllowDesktopConfig)),
      WInt(K_AllowOverlay, Flag(shortcut.AllowOverlay)),
      WInt(K_OpenVR, Flag(shortcut.OpenVR)),
      WInt(K_Devkit, Flag(shortcut.Devkit)),
      WStr(K_DevkitGameID, shortcut.DevkitGameID),
      WInt(K_DevkitOverrideAppID, LittleEndian(shortcut.DevkitOverrideAppID)),
      WInt(K_LastPlayTime, LittleEndian(shortcut.LastPlayTime)),
      WStr(K_FlatpakAppID, shortcut.FlatpakAppID)>>

\* The unknown fields in one order, and the tags keyed by their position.
UnknownLayout(shortcut, order) ==
    [j \in 1..Len(order.s) |-> WStr(order.s[j], shortcut.UnknownStrings[order.s[j]])]
    \o [j \in 1..Len(order.i) |->
            WInt(order.i[j], LittleEndian(shortcut.UnknownInts[order.i[j]]))]

TagsLayout(shortcut) ==
    WDict(K_tags, [j \in DOMAIN shortcut.Tags |-> WStr(Itoa(j - 1), shortcut.Tags[j])])

Layout(shortcut, order) ==
    KnownLayout(shortcut) \o UnknownLayout(shortcut, order) \o <<TagsLayout(shortcut)>>

\* C19: for every record, whatever its values, the writer emits the sixteen
\* known fields, none left out, in the order appid, AppName, Exe, StartDir,
\* icon, ShortcutPath, LaunchOptions, IsHidden, AllowDesktopConfig,
\* AllowOverlay, OpenVR, Devkit, DevkitGameID, DevkitOverrideAppID,
\* LastPlayTime, FlatpakAppID, then the unknown fields (in some order), then
\* the tags dictionary, the records being keyed 0..N-1 by their position.
C19_WriterLayout ==
    (input.kind = "roundtrip" /\ output.done)
    => \E orders \in RangeOrders(input.store) :
           output.data
               = wireFile(TypeDict, K_shortcuts,
                          [k \in DOMAIN input.store |-> Layout(input.store[k], orders[k])])

C19_Witness ==
    /\ input.kind = "roundtrip"
    /\ output.done
    /\ input.store = <<ZeroShortcut, Tricky>>
    /\ Prefix(output.data, 35)
           = <<0>> \o K_shortcuts \o <<0, 0, 48, 0, 2>> \o K_appid \o <<0, 0, 0, 0, 0>>
             \o <<1>> \o K_AppName \o <<0, 0>>
    /\ Contains(output.data, <<8, 8, 0, 49, 0, 2>> \o K_appid \o <<0, 8, 0, 0, 128>>)
    /\ Contains(output.data, <<0>> \o K_tags \o <<0, 1, 48, 0, 0, 1, 49, 0, 8, 0, 1, 50, 0>>)


----------------------------------------------------------------------------
(* Field dispatch in the parser (specification FnSpec) *)

\* The known field names as the claim lists them, lowercase aliases included.
ListedNames ==
    {K_AppName, K_Exe, K_StartDir, K_LaunchOptions, K_IsHidden, K_AllowDesktopConfig,
     K_AllowOverlay, K_OpenVR, K_Devkit, K_DevkitGameID, K_DevkitOverrideAppID,
     K_LastPlayTime, K_FlatpakAppID, K_appid, K_icon, K_ShortcutPath, K_tags,
     K_appname, K_exe}

\* fields without its field k.
Without(fields, k) == SubSeq(fields, 1, k - 1) \o SubSeq(fields, k + 1, Len(fields))

\* The named attributes of a record: the record less its unknown fields.
Named(shortcut) ==
    [shortcut EXCEPT !.UnknownStrings = EmptyMap, !.UnknownInts = EmptyMap]

\* The record parsed from one record with these fields.
ParsedRecord(fields) ==
    parseShortcutsVDF(wireFile(TypeDict, K_shortcuts, <<fields>>)).val[1]

\* Field f is among the unknown fields of its wire type, under its name.
KeptUnknown(shortcut, f) ==
    /\ f.t = TypeString => f.n \in DOMAIN shortcut.UnknownStrings
    /\ f.t = TypeInt => f.n \in DOMAIN shortcut.UnknownInts

\* Field k of the record went to the unknown fields and to no named attribute:
\* the named attributes are those of the record parsed without the field.
StoredAsUnknown(fields, k, shortcut) ==
    /\ KeptUnknown(shortcut, fields[k])
    /\ Named(shortcut) = Named(ParsedRecord(Without(fields, k)))
    /\ LastOfItsName(fields, k) => ReadBack(output.first, fields[k])

\* C20 (as stated): a string or integer field whose name is not one of the
\* listed known names or lowercase aliases is never assigned to a named
\* attribute; it is stored under its exact name in the unknown fields of its
\* wire type, a string field "Icon" and an integer field "AppID" for example.
C20_ListedNamesDispatch ==
    Reparsed
    => \A k \in DOMAIN input.fields :
           (input.fields[k].t \in {TypeString, TypeInt}
            /\ input.fields[k].n \notin ListedNames)
               => StoredAsUnknown(input.fields, k, output.first.val[1])

\* C20 (amended): the same for a name that is none of the names the parser
\* has a slot for, which are the listed ones and "Icon" and "AppID": a string
\* field "Icon" is assigned to Icon and an integer field "AppID" to AppID.
C20_ParserNamesDispatch ==
    Reparsed
    => /\ \A k \in DOMAIN input.fields :
              UnknownField(input.fields[k])
                  => StoredAsUnknown(input.fields, k, output.first.val[1])
       /\ input.fields = <<WStr(K_Icon, Image)>>
              => /\ output.first.val[1].Icon = Image
                 /\ output.first.val[1].UnknownStrings = EmptyMap
       /\ input.fields = <<WInt(K_AppID, <<7, 0, 0, 0>>)>>
              => /\ output.first.val[1].AppID = <<0, 7>>
                 /\ output.first.val[1].UnknownInts = EmptyMap

C20_Witness ==
    /\ Reparsed
    /\ input.fields = <<WStr(K_Icon, Image), WInt(FieldX, <<1, 0, 0, 0>>)>>
    /\ output.first.val[1].Icon = Image
    /\ DOMAIN output.first.val[1].UnknownStrings = {}
    /\ DOMAIN output.first.val[1].UnknownInts = {FieldX}
    /\ output.first.val[1].UnknownInts[FieldX] = <<0, 1>>


----------------------------------------------------------------------------
(* Type tags and tags dictionaries in the parser (specification FnSpec) *)

\* A whole file under the root "shortcuts" was handed to the parser.
ParsedWhole ==
    /\ input.kind = "parse"
    /\ output.done
    /\ input.rootType = TypeDict
    /\ input.rootKey = K_shortcuts
    /\ input.cut = Len(wireFile(input.rootType, input.rootKey, input.records))

\* Some field of fields, or of a dictionary inside it (the "tags" dictionary
\* included), carries a type tag other than 0x00, 0x01, 0x02.
RECURSIVE BadTagIn(_)
BadTagIn(fields) ==
    \E k \in DOMAIN fields :
        \/ fields[k].t \notin {TypeDict, TypeString, TypeInt}
        \/ fields[k].t = TypeDict /\ BadTagIn(fields[k].sub)

HasBadTag == \E k \in DOMAIN input.records : BadTagIn(input.records[k])

\* C21: a field type tag other than 0x00, 0x01, 0x02 anywhere inside a record,
\* the entries of its "tags" dictionary included, makes the parse fail with an
\* error.
C21_BadTagFails == ParsedWhole /\ HasBadTag => output.read.err # Nil


\* The number a decimal key stands for.
RECURSIVE Atoi(_)
Atoi(digits) ==
    IF digits = <<>> THEN 0
    ELSE 10 * Atoi(SubSeq(digits, 1, Len(digits) - 1)) + (digits[Len(digits)] - 48)

\* The "tags" dictionaries among the fields of a record on the wire.
TagsFields(fields) == {k \in DOMAIN fields : fields[k].t = TypeDict /\ fields[k].n = K_tags}

\* The entries are strings under decimal keys that differ.
KeyedStrings(entries) ==
    /\ \A k \in DOMAIN entries :
           /\ entries[k].t = TypeString
           /\ entries[k].n # <<>>
           /\ \A d \in DOMAIN entries[k].n : entries[k].n[d] \in 48..57
    /\ \A j, k \in DOMAIN entries : j # k => Atoi(entries[j].n) # Atoi(entries[k].n)

\* The values of the entries by ascending key.
ByKey(entries) ==
    [i \in DOMAIN entries |->
        entries[CHOOSE k \in DOMAIN entries :
                    Cardinality({j \in DOMAIN entries :
                                    Atoi(entries[j].n) < Atoi(entries[k].n)}) = i - 1].v]

\* C22: the Tags read from a "tags" dictionary list the values of its entries
\* by ascending numeric key, also when the entries lie on the wire in another
\* order.
C22_TagsOrderedByKey ==
    ParsedWhole /\ output.read.err = Nil =>
        \A r \in DOMAIN input.records :
            \A k \in TagsFields(input.records[r]) :
                (/\ r \in DOMAIN output.read.val
                 /\ TagsFields(input.records[r]) = {k}
                 /\ KeyedStrings(input.records[r][k].sub))
                => output.read.val[r].Tags = ByKey(input.records[r][k].sub)

----------------------------------------------------------------------------
(* The paths of a candidate (specification FnSpec) *)

\* space ( ) [ ] { } & | ; < > ? * ' ` " \
ShellSpecial == {32, 40, 41, 91, 93, 123, 125, 38, 124, 59, 60, 62, 63, 42, 39, 96, 34, 92}

Quoted(path) == <<34>> \o path \o <<34>>

\* s ends with one "/" and not with two.
EndsWithOneSlash(s) ==
    /\ Len(s) >= 1
    /\ s[Len(s)] = 47
    /\ Len(s) >= 2 => s[Len(s) - 1] # 47

CandidateBuilt == input.kind = "candidate" /\ output.done

\* C23: off Windows the candidate's Exe is the executable in one pair of double
\* quotes exactly when the executable holds a shell-special character and is
\* the executable itself otherwise; its StartDir is the executable's parent
\* directory, with a "/" appended only when it did not end with one, and ends
\* with exactly one "/": "/g/" for an executable "/g/x".
C23_QuotedExeAndSlashedStartDir ==
    CandidateBuilt /\ GOOS # "windows" =>
        LET exe == input.game.Executable
            parent == Dir(exe)
        IN  /\ output.shortcut.Exe =
                   IF \E i \in DOMAIN exe : exe[i] \in ShellSpecial
                   THEN Quoted(exe) ELSE exe
            /\ output.shortcut.StartDir =
                   IF parent # <<>> /\ parent[Len(parent)] = 47
                   THEN parent ELSE parent \o <<47>>
            /\ EndsWithOneSlash(output.shortcut.StartDir)
            /\ (Len(exe) = 4 /\ SubSeq(exe, 1, 3) = <<47, 103, 47>> /\ exe[4] # 47)
                   => output.shortcut.StartDir = <<47, 103, 47>>

\* An executable with a space, parentheses and quotes in a directory with a
\* space: quoted once, started in that directory.
C23_Witness ==
    /\ CandidateBuilt
    /\ input.game.Executable = <<47, 103, 32, 40, 49, 41, 47, 120, 34, 121, 34>>
    /\ output.shortcut.Exe = <<34, 47, 103, 32, 40, 49, 41, 47, 120, 34, 121, 34, 34>>
    /\ output.shortcut.StartDir = <<47, 103, 32, 40, 49, 41, 47>>

----------------------------------------------------------------------------
(* The order of the games of a batch (specification FnSpec) *)

OrdersMerged == input.kind = "mergeOrders" /\ output.done

\* The two games have different normalized names (and so different ids).
DistinctNames ==
    /\ normalizeName(input.games[1].Name) # normalizeName(input.games[2].Name)
    /\ output.candidates[1].AppID # output.candidates[2].AppID

\* Record r of the store is one the scan stops at for candidate c.
StopsAt(r, c) ==
    \/ r.AppID = c.AppID
    \/ normalizeName(r.AppName) = normalizeName(c.AppName)

\* No record of the store has the id or the name of candidate c.
IsNew(c) == \A i \in DOMAIN input.store : ~StopsAt(input.store[i], c)

\* No record of the store has the id or name of one candidate and the id or
\* name of the other.
NoSharedRecord ==
    \A i \in DOMAIN input.store :
        ~(StopsAt(input.store[i], output.candidates[1])
          /\ StopsAt(input.store[i], output.candidates[2]))

\* C24 as stated: for candidates with different normalized names, the batch
\* [c1, c2] and the batch [c2, c1] leave the same store, whatever the store.
C24_BatchOrderIndependent ==
    OrdersMerged /\ DistinctNames => output.forth = output.back

\* C24 as the code has it: when no record of the store matches both
\* candidates, the two orders leave the same store unless both candidates are
\* new; then each order leaves the store followed by the two candidates in the
\* order of the batch.
C24_OrderIndependentButForAppends ==
    OrdersMerged /\ DistinctNames /\ NoSharedRecord =>
        IF IsNew(output.candidates[1]) /\ IsNew(output.candidates[2])
        THEN /\ output.forth = input.store \o <<output.candidates[1], output.candidates[2]>>
             /\ output.back = input.store \o <<output.candidates[2], output.candidates[1]>>
        ELSE output.forth = output.back

\* "A" is in the store under a foreign id and "B" is not: in either order "A"
\* is updated in place and "B" appended.
C24_Witness ==
    /\ OrdersMerged
    /\ DistinctNames
    /\ NoSharedRecord
    /\ input.store = <<Tuned(LegacyID, NameA)>>
    /\ ~IsNew(output.candidates[1])
    /\ IsNew(output.candidates[2])
    /\ Len(output.forth) = 2
    /\ output.forth = output.back

----------------------------------------------------------------------------
(* Two calls at once: each of the two goroutines started by the window runs  *)
(* one call of AddGameToSteam or AddAllGamesToSteam on the same file, and   *)
(* the Manager holds no lock.  input holds the two calls, output the         *)
(* position and the locals of each goroutine, log the file operations in    *)
(* the order they happen.  A step is a statement that reads or writes the   *)
(* file, with the local statements before it; os.WriteFile is taken to      *)
(* replace the content in one step.                                         *)

Goroutines == {1, 2}

RaceCalls ==
    {[op |-> "AddGameToSteam", games |-> <<game>>] : game \in Games}
    \cup {[op |-> "AddAllGamesToSteam", games |-> games] :
              games \in SeqsUpTo(LibraryGames, MaxBatch)}

RaceFiles == {NoFile, File(SteamFile)}

Started == [pc |-> "start", isUpdate |-> FALSE, shortcuts |-> <<>>, err |-> Nil]

RaceInit ==
    /\ steam \in {Found, NoSteam, NoUserData}
    /\ file \in RaceFiles
    /\ log = <<>>
    /\ input \in [kind : {"race"}, calls : [Goroutines -> RaceCalls]]
    /\ output = [p \in Goroutines |-> Started]

FileOp(p, op, f) == [p |-> p, op |-> op, file |-> f]

\* len(games) == 0 of AddAllGamesToSteam; findSteamPath, findUserDataPath.
GoEnter(p) ==
    /\ output[p].pc = "start"
    /\ output' =
           [output EXCEPT ![p] =
               IF input.calls[p].op = "AddAllGamesToSteam" /\ Len(input.calls[p].games) = 0
               THEN [@ EXCEPT !.pc = "done", !.err = NoGames]
               ELSE IF steam # Found THEN [@ EXCEPT !.pc = "done", !.err = steam]
               ELSE IF input.calls[p].op = "AddGameToSteam" THEN [@ EXCEPT !.pc = "check"]
               ELSE [@ EXCEPT !.pc = "read"]]
    /\ UNCHANGED <<steam, file, log, input>>

\* isUpdate, err := m.checkGameExistsInSteam(shortcutsPath, game) of AddGameToSteam.
GoCheck(p) ==
    /\ output[p].pc = "check"
    /\ output' = [output EXCEPT
                     ![p].pc = "read",
                     ![p].isUpdate = checkGameExistsInSteam(file, input.calls[p].games[1])]
    /\ log' = Append(log, FileOp(p, "check", file))
    /\ UNCHANGED <<steam, file, input>>

\* shortcuts, err := m.readShortcutsFile(shortcutsPath) of addShortcutToFile and
\* of AddAllGamesToSteam.
GoRead(p) ==
    /\ output[p].pc = "read"
    /\ output' = [output EXCEPT ![p].pc = "write", ![p].shortcuts = readOrEmpty(file)]
    /\ log' = Append(log, FileOp(p, "read", file))
    /\ UNCHANGED <<steam, file, input>>

\* The shortcuts a call writes, given those it read.
mergedBy(call, shortcuts) ==
    IF call.op = "AddGameToSteam"
    THEN mergeShortcut(shortcuts, createShortcutFromGame(call.games[1]))
    ELSE batchMerge(shortcuts, call.games)

\* A write under a lock taken before the read: the merge is into what the
\* file holds now.
GoWriteLocked(p) ==
    /\ output[p].pc = "write"
    /\ WriteShortcutsFile(mergedBy(input.calls[p], readOrEmpty(file)))
    /\ output' = [output EXCEPT ![p].pc = "done"]
    /\ log' = Append(log, FileOp(p, "write", file'))
    /\ UNCHANGED <<steam, input>>

\* The merge into the shortcuts read, m.writeShortcutsFile, return nil.
GoWrite(p) ==
    /\ output[p].pc = "write"
    /\ WriteShortcutsFile(mergedBy(input.calls[p], output[p].shortcuts))
    /\ output' = [output EXCEPT ![p].pc = "done"]
    /\ log' = Append(log, FileOp(p, "write", file'))
    /\ UNCHANGED <<steam, input>>

RaceNext ==
    \E p \in Goroutines :
        \/ GoEnter(p)
        \/ GoCheck(p)
        \/ GoRead(p)
        \/ GoWrite(p)

RaceSpec == RaceInit /\ [][RaceNext]_vars

----------------------------------------------------------------------------
(* Properties of two calls at once (specification RaceSpec) *)

\* Both calls have returned nil.
BothSucceeded ==
    \A p \in Goroutines : output[p].pc = "done" /\ output[p].err = Nil

\* The positions in log of the read and of the write of goroutine p.
ReadOf(p) == CHOOSE i \in DOMAIN log : log[i].p = p /\ log[i].op = "read"
WriteOf(p) == CHOOSE i \in DOMAIN log : log[i].p = p /\ log[i].op = "write"

\* Goroutine first wrote before goroutine second, and second had read the file
\* before that write.
Raced(first, second) ==
    /\ first # second
    /\ BothSucceeded
    /\ ReadOf(second) < WriteOf(first)
    /\ WriteOf(first) < WriteOf(second)

\* Game k of the call of goroutine first was not in the file the calls found
\* and has the name of none of the games of goroutine second.
OnlyOf(first, second, k) ==
    /\ ~checkGameExistsInSteam(log[1].file, input.calls[first].games[k])
    /\ \A j \in DOMAIN input.calls[second].games :
           normalizeName(input.calls[second].games[j].Name)
               # normalizeName(input.calls[first].games[k].Name)

\* C25: when two calls run at once and the one that writes last had read the
\* file before the other wrote, both return nil and the file holds none of
\* the games that only the first writer added.
C25_SecondWriterDiscardsFirst ==
    \A first, second \in Goroutines :
        Raced(first, second) =>
            \A k \in DOMAIN input.calls[first].games :
                OnlyOf(first, second, k) =>
                    ~checkGameExistsInSteam(file, input.calls[first].games[k])

\* Goroutine 1 adds "A" and goroutine 2 adds "B" to a missing file; both read
\* it as empty, 1 writes, 2 writes: both returned nil and the file holds "B"
\* alone.
C25_Witness ==
    /\ Raced(1, 2)
    /\ log[1].file = NoFile
    /\ input.calls[1] = [op |-> "AddGameToSteam", games |-> <<Game(NameA, Exe1, <<>>, <<>>)>>]
    /\ input.calls[2] = [op |-> "AddGameToSteam", games |-> <<Game(NameB, Exe1, <<>>, <<>>)>>]
    /\ ~checkGameExistsInSteam(file, input.calls[1].games[1])
    /\ checkGameExistsInSteam(file, input.calls[2].games[1])
    /\ Len(readOrEmpty(file)) = 1

----------------------------------------------------------------------------
(* Buffers that end before the dictionary is closed (specification FnSpec) *)

\* The buffer is a file under the root "shortcuts" cut before the 0x08 that
\* closes the dictionary (the file ends with that byte and one more 0x08).
EndsBeforeClose ==
    /\ input.kind = "parse"
    /\ output.done
    /\ input.rootType = TypeDict
    /\ input.rootKey = K_shortcuts
    /\ input.cut <= Len(wireFile(input.rootType, input.rootKey, input.records)) - 2

\* C26: a buffer that ends before the "shortcuts" dictionary is closed by its
\* 0x08 byte makes the parse return an error and no records, also when it ends
\* right after the root header or right after the closing 0x08 of a record.
C26_UnclosedDictionaryIsRejected ==
    EndsBeforeClose => (output.read.err # Nil /\ output.read.val = <<>>)

----------------------------------------------------------------------------
(* Merging the same candidate again (specification FnSpec) *)

\* The index the scan stopped at when the candidate was merged into before:
\* that of the first matching record, or of the record appended.
MatchedAt(before, shortcut) ==
    IF Matching(before, shortcut) = {} THEN Len(before) + 1
    ELSE Least(Matching(before, shortcut))

\* Merging the candidate into after, the store its merge into before left,
\* stops at the same record and leaves after as it is.
MergedAgain(before, shortcut, after) ==
    /\ findExisting(after, shortcut, 1) = MatchedAt(before, shortcut)
    /\ batchFindExisting(after, shortcut, 1) = MatchedAt(before, shortcut)
    /\ mergeShortcut(after, shortcut) = after
    /\ batchMergeShortcut(after, shortcut) = after

\* C27: merging is idempotent: merging a candidate into the store that its
\* merge left gives that store again, same length and same records, and
\* matches the record the first merge updated or appended.
C27_MergeIsIdempotent == AtEachMerge(MergedAgain)

\* A batch holding the same game twice, on a store that has it under a
\* foreign id: the first pass updates the record, the second leaves the store
\* as the first left it.
C27_Witness ==
    /\ input.kind = "mergeBatch"
    /\ output.done
    /\ input.store = <<Tuned(LegacyID, NameB), Tuned(LegacyID, NameA)>>
    /\ input.games = <<Game(NameA, Exe2, <<>>, Image), Game(NameA, Exe2, <<>>, Image)>>
    /\ output.trace[2] # output.trace[1]
    /\ output.trace[3] = output.trace[2]
    /\ output.trace[3][2].Icon = Image
    /\ MatchedAt(output.trace[2], output.candidates[2]) = 2

----------------------------------------------------------------------------
(* The store built from nothing (specification Spec) *)

\* The calls so far started from a missing file.
StartedMissing == IF log = <<>> THEN file = NoFile ELSE log[1].pre = NoFile

\* The normalized names of the games of the calls that returned nil.
AddedNames ==
    UNION {{normalizeName(log[i].games[k].Name) : k \in DOMAIN log[i].games} :
              i \in {j \in DOMAIN log : log[j].err = Nil}}

\* Every record has the id of its name, with bit 31 set; no two records share
\* a normalized name or an id; there are no more records than names.
LauncherMade(shortcuts, names) ==
    /\ \A i \in DOMAIN shortcuts :
           /\ shortcuts[i].AppID = generateAppID(shortcuts[i].AppName, <<>>)
           /\ HighBit(shortcuts[i].AppID)
    /\ \A i, j \in DOMAIN shortcuts :
           i # j => /\ normalizeName(shortcuts[i].AppName)
                          # normalizeName(shortcuts[j].AppName)
                    /\ shortcuts[i].AppID # shortcuts[j].AppID
    /\ Cardinality(names) >= Len(shortcuts)

\* C28: starting from a missing file, after any calls of AddGameToSteam and
\* AddAllGamesToSteam made one at a time, the file, when it exists, parses;
\* every record has AppID = generateAppID(AppName) with bit 31 set, no two
\* records share a normalized AppName or an AppID, and there are no more
\* records than distinct normalized names added so far.
C28_StoreFromNothingIsLauncherMade ==
    StartedMissing =>
        /\ file.exists => ReadShortcutsFile(file).err = Nil
        /\ LauncherMade(readOrEmpty(file), AddedNames)

\* From a missing file: "A" added alone, then the library holding "A" with
\* another executable and "B": two records, "A" first with its new executable.
C28_Witness ==
    /\ Len(log) = 2
    /\ log[1].pre = NoFile
    /\ log[1].err = Nil /\ log[2].err = Nil
    /\ log[1].games = <<Game(NameSpA, Exe1, <<>>, <<>>)>>
    /\ log[2].games = <<Game(NameB, Exe1, <<>>, <<>>), Game(NameA, Exe2, <<>>, Image)>>
    /\ AddedNames = {<<97>>, <<98>>}
    /\ Len(readOrEmpty(file)) = 2
    /\ readOrEmpty(file)[1].AppName = NameA
    /\ readOrEmpty(file)[1].Icon = Image
    /\ readOrEmpty(file)[2].AppName = NameB

----------------------------------------------------------------------------
(* The check before the merge (specification Spec) *)

\* The file as call i left it.
FileAfter(i) == IF i = Len(log) THEN file ELSE log[i + 1].pre

\* The answer of checkGameExistsInSteam and the merge that followed agree: true
\* and a store of the same length, or false and a store one record longer;
\* false when the file could not be read.
CheckAgrees(isUpdate, read, before, after) ==
    /\ isUpdate <=> Len(after) = Len(before)
    /\ ~isUpdate <=> Len(after) = Len(before) + 1
    /\ read.err # Nil => ~isUpdate

\* C29: the answer of checkGameExistsInSteam, on whatever the file holds, is
\* true exactly when the AddGameToSteam that follows updates a record in place
\* and false exactly when it appends one; it is false for a file that is
\* missing or cannot be parsed.
C29_CheckAgreesWithMerge ==
    \A i \in DOMAIN log :
        (log[i].op = "AddGameToSteam" /\ log[i].err = Nil)
        => CheckAgrees(log[i].isUpdate, ReadShortcutsFile(log[i].pre),
                       readOrEmpty(log[i].pre), readOrEmpty(FileAfter(i)))

\* A file cut inside its record, then "A" added twice: the first check says
\* false and the call leaves one record, the second says true and the call
\* leaves one record.
C29_Witness ==
    /\ Len(log) = 2
    /\ log[1].op = "AddGameToSteam" /\ log[2].op = "AddGameToSteam"
    /\ log[1].err = Nil /\ log[2].err = Nil
    /\ log[1].pre = File(TruncatedFile)
    /\ ReadShortcutsFile(log[1].pre).err # Nil
    /\ ~log[1].isUpdate
    /\ Len(readOrEmpty(log[2].pre)) = 1
    /\ log[2].isUpdate
    /\ Len(readOrEmpty(file)) = 1

----------------------------------------------------------------------------
(* The names of the existing records (specification FnSpec) *)

\* Every record of before has in after the normalized name it had, and the
\* record the candidate updated had the candidate's normalized name.
NamesKept(before, shortcut, after) ==
    /\ \A i \in DOMAIN before :
           /\ i \in DOMAIN after
           /\ normalizeName(after[i].AppName) = normalizeName(before[i].AppName)
    /\ Matching(before, shortcut) # {}
       => normalizeName(before[Least(Matching(before, shortcut))].AppName)
              = normalizeName(shortcut.AppName)

\* No record of before has the candidate's AppID under another normalized name.
IdUnderItsName(before, shortcut) ==
    \A i \in DOMAIN before :
        before[i].AppID = shortcut.AppID
            => normalizeName(before[i].AppName) = normalizeName(shortcut.AppName)

NamesKeptUnderItsName(before, shortcut, after) ==
    IdUnderItsName(before, shortcut) => NamesKept(before, shortcut, after)

=============================================================================
